---- MODULE Spec2Model ----
(***************************************************************************)
(* Batch match-evaluation engine of AI_Prospectus.                         *)
(*                                                                         *)
(* The model follows src/app.py (the request handlers and the              *)
(* retrieval-only batch) and src/services/gpt_service.py (CompanyMatcher:  *)
(* criteria cache, semaphore, retrying completion call, criteria batch).   *)
(* The event loop is cooperative: an action is the code a coroutine runs   *)
(* between two suspension points (awaits).                                 *)
(***************************************************************************)
EXTENDS Integers, Sequences, FiniteSets, TLC

\* ------------------------------------------------------------------ bounds
\* Requests the process serves in one run of the model.
MaxReqs == 2
\* Org numbers over all accepted requests of one run.
MaxItems == 3
\* Largest batch_size argument a request is tried with.
MaxBatchSize == 2
\* MatchConfig.max_concurrent as the model runs it (the app configures 50).
MaxConcurrent == 2
\* Concurrent completion calls when the retrying client is run by itself.
MaxCallers == 2

\* ------------------------------------------------------- program constants
MaxCompanies == 100
DefaultBatchSize == 5
MatchThreshold == 80
max_tries == 3
sdk_max_retries == 3

\* ------------------------------------------------------------ value model
\* Optional[T]: None is the empty tuple, a present value a one-tuple.
None == <<>>
Some(x) == <<x>>

Reqs == 1..MaxReqs

\* Org numbers are opaque strings; the k-th entry of a request's list.
OrgNumber(k) == IF k % 2 = 1 THEN "5560000001" ELSE "5560000002"

\* The lists of org numbers a request may carry: one list of each length up
\* to MaxItems, and one list of MaxCompanies + 1 entries.
OrgLists ==
    {[k \in 1..n |-> OrgNumber(k)] : n \in (0..MaxItems) \cup {MaxCompanies + 1}}

\* BatchRequestModel.criteria: Optional[str].
CriteriaArgs == {None, Some(""), Some("stockholm ceo")}

\* BatchRequestModel.batch_size: Optional[int]; pydantic accepts any integer.
BatchSizeArgs == {None} \cup {Some(b) : b \in (-1)..MaxBatchSize}

Endpoints == {"evaluate-batch", "test-evaluate-batch"}

\* str(e) of an exception raised by a collaborator: it may be empty.
ExcMessages == {"", "connection reset"}

\* What the completion service's answer normalizes to (score, confidence in
\* hundredths).
MatchResultSamples ==
    { [match_score |-> 0,   confidence |-> 0,   reason |-> "no fit"],
      [match_score |-> 79,  confidence |-> 100, reason |-> "near fit"],
      [match_score |-> 80,  confidence |-> 50,  reason |-> "fit"] }

\* CriteriaInfo records the completion service may produce for a criteria text.
CriteriaInfoSamples == {"info-a", "info-b"}

\* Python truthiness of an Optional[str] / Optional[int].
TruthyStr(x) == x # None /\ x[1] # ""
TruthyInt(x) == x # None /\ x[1] # 0

\* `request.batch_size or 5`
EffectiveBatchSize(arg) == IF TruthyInt(arg) THEN arg[1] ELSE DefaultBatchSize

Min(a, b) == IF a < b THEN a ELSE b
Max(a, b) == IF a > b THEN a ELSE b

\* overall_timeout without the floor of 10 minutes.
OverallTimeoutNoFloor(num_companies) == Min(num_companies * 5 * 60, 7200)

\* overall_timeout = min(max(num_companies * 5 * 60, 600), 7200)
OverallTimeout(num_companies) == Min(Max(num_companies * 5 * 60, 600), 7200)

\* range(0, total, step) as the sequence of chunk starts; empty for step < 0.
\* (step = 0 never reaches range: `or 5` replaces it.)
RangeStarts(total, step) ==
    IF step <= 0 THEN {} ELSE {i \in 0..(total - 1) : i % step = 0}

\* org_numbers[i:i + batch_size] for i >= 0, batch_size > 0
Slice(s, i, size) == SubSeq(s, i + 1, Min(i + size, Len(s)))

\* ------------------------------------------------------------------ state
VARIABLES
    world,           \* how the collaborators behave in this run (see Worlds)
    phase,           \* per request: where its handler stands
    request,         \* per request: the BatchRequestModel and the endpoint
    overall_timeout, \* per request: the handler's overall_timeout (seconds)
    semaphore,       \* per request: free permits of its matcher's _semaphore
    criteria_cache,  \* the lru_cache of _cached_criteria_extraction
    criteria_info,   \* per request: the batch's criteria_info
    interp_calls,    \* per criteria text: runs of _extract_criteria_info
    chunk_start,     \* per request: the loop variable i
    all_results,     \* per request: all_results, and results once returned
    batch_tasks,     \* per request: the tasks of the chunk being gathered
    response,        \* per request: what the handler answered
    external,        \* per request: the collaborators it has called
    llm,             \* per caller: one run of _async_call_llm_with_retry
    evaluation       \* one run of the evaluator or of the normalizer by itself

vars == <<world, phase, request, overall_timeout, semaphore, criteria_cache,
          criteria_info, interp_calls, chunk_start, all_results, batch_tasks,
          response, external, llm, evaluation>>

\* request is kept for the accepted requests only; batch_size holds
\* `request.batch_size or 5`, the one way the handlers read it.
NoRequest ==
    [org_numbers |-> <<>>, criteria |-> None, batch_size |-> DefaultBatchSize,
     endpoint |-> "none"]

NoResponse ==
    [status_code |-> 0, detail |-> "", status |-> None, summary |-> None,
     inline |-> FALSE]

\* raise HTTPException(status_code, detail)
HTTPException(status_code, detail) ==
    [NoResponse EXCEPT !.status_code = status_code, !.detail = detail]

CriteriaTexts == {c[1] : c \in {x \in CriteriaArgs : TruthyStr(x)}}

\* ------------------------------------------------------------- outcomes
\* One entry of a batch result list (the dict process_single_company returns).
\* error = None stands for a dict without the "error" key.
Outcome(org, is_match, score, reason, conf, status, error, profile) ==
    [org_number |-> org, is_match |-> is_match, match_score |-> score,
     reason |-> reason, confidence |-> conf, status |-> status,
     error |-> error, company_profile |-> profile]

\* A failed outcome of the criteria batch.
FailedEval(org, reason, error, profile) ==
    Outcome(org, FALSE, Some(0), reason, Some(0), "failed", Some(error), profile)

\* A failed outcome of the retrieval-only batch.
FailedRetrieval(org, reason, error) ==
    Outcome(org, FALSE, None, reason, None, "failed", Some(error), None)

\* EvaluatedOutcome with a match decision that also asks for the configured
\* min_confidence (0.75).
EvaluatedOutcomeMinConfidence(org, match_result, profile) ==
    Outcome(org, match_result.match_score >= MatchThreshold /\ match_result.confidence >= 75,
            Some(match_result.match_score), match_result.reason,
            Some(match_result.confidence), "success", None, profile)

\* The outcome built from a MatchResult.
EvaluatedOutcome(org, match_result, profile) ==
    Outcome(org, match_result.match_score >= MatchThreshold,
            Some(match_result.match_score), match_result.reason,
            Some(match_result.confidence), "success", None, profile)

\* EvaluationFailed with str(e) alone as the reason.
EvaluationFailedBare(msg) ==
    [match_score |-> 0, confidence |-> 0, reason |-> msg]

\* The MatchResult _async_evaluate_match_with_criteria_info returns when the
\* completion call raised.
EvaluationFailed(msg) ==
    [match_score |-> 0, confidence |-> 0, reason |-> "Evaluation failed: " \o msg]

\* ----------------------------------------------------------------- tasks
NewTask == [pc |-> "fetch", tries |-> 0, company_data |-> None, result |-> None]

Finished(task, outcome) ==
    [task EXCEPT !.pc = "done", !.result = Some([kind |-> "outcome", value |-> outcome])]

\* The runs the model explores. In a "faulty" world every collaborator call
\* may fail, time out or raise and every deadline may fire, and the process
\* serves one request. In a "reliable" world the collaborators answer and no
\* deadline fires, and the process serves up to MaxReqs requests at a time.
Worlds == {"faulty", "reliable"}

\* What a collaborator call of one item can end in.
CallResults ==
    {[kind |-> k, msg |-> ""] : k \in {"data", "nameless", "none", "timeout"}}
        \cup {[kind |-> "raise", msg |-> m] : m \in ExcMessages}

CallResultsIn(w) ==
    IF w = "faulty" THEN CallResults ELSE {res \in CallResults : res.kind = "data"}

\* Exception classes that can leave one attempt of the completion call.
AttemptErrors == {"RateLimitError", "BadRequestError", "TypeError"}

AttemptErrorsIn(w) == IF w = "faulty" THEN AttemptErrors ELSE {}

\* openai's hierarchy: every error the SDK raises for an API answer derives from
\* APIError, the 400 BadRequestError included.
IsAPIError(cls) ==
    cls \in {"APIError", "RateLimitError", "APITimeoutError",
             "InternalServerError", "BadRequestError"}

\* backoff.on_exception((APIError, RateLimitError, APITimeoutError), max_tries=3,
\* max_time=30): whether the decorator calls again after an attempt raised cls.
RetriesAfter(cls, tries, max_time_exceeded) ==
    IsAPIError(cls) /\ tries < max_tries /\ ~max_time_exceeded

\* ------------------------------------------- the retrying completion call
\* Concurrent callers of _async_call_llm_with_retry on one matcher.
Callers == 1..MaxCallers

\* What the completion service can answer one HTTP submission with.
Answers == {"200", "200-unparsable", "400", "429"}

\* AsyncOpenAI(max_retries=3) submits again by itself after a 429 (as after a
\* timeout, a connection error, a 408, a 409 or a 5xx).
SdkRetries(answer) == answer = "429"

\* The exception `create` (or the parsing after it) raises for an answer.
ErrorClass(answer) ==
    CASE answer = "429" -> "RateLimitError"
      [] answer = "400" -> "BadRequestError"
      [] OTHER -> "TypeError"

NoCall ==
    [pc |-> "idle", tries |-> 0, sdk_retries |-> 0, submissions |-> 0,
     errors |-> <<>>]

\* ------------------------------------------------- the response normalizer
\* A value json.loads can return for a field: type is "absent" (no such key),
\* "null", "int" (val), "float" (val in hundredths), "str" (chars, one
\* character each) or "list" (items, the characters of each str it holds).
JsonValue(type, val, chars, items) ==
    [type |-> type, val |-> val, chars |-> chars, items |-> items]

Absent == JsonValue("absent", 0, <<>>, <<>>)
JsonNull == JsonValue("null", 0, <<>>, <<>>)
JsonInt(n) == JsonValue("int", n, <<>>, <<>>)
JsonFloat(hundredths) == JsonValue("float", hundredths, <<>>, <<>>)
JsonStr(chars) == JsonValue("str", 0, chars, <<>>)
JsonList(items) == JsonValue("list", 0, <<>>, items)

Digits == {"0", "1", "2", "3", "4", "5", "6", "7", "8", "9"}

\* int(c) for a digit c.
DigitVal(c) ==
    CASE c = "0" -> 0 [] c = "1" -> 1 [] c = "2" -> 2 [] c = "3" -> 3
      [] c = "4" -> 4 [] c = "5" -> 5 [] c = "6" -> 6 [] c = "7" -> 7
      [] c = "8" -> 8 [] c = "9" -> 9

RECURSIVE DigitRunEnd(_, _)
\* \d+ matched greedily from the digit s[i]: the index of its last digit.
DigitRunEnd(s, i) ==
    IF i < Len(s) /\ s[i + 1] \in Digits THEN DigitRunEnd(s, i + 1) ELSE i

RECURSIVE IntOf(_, _, _)
\* int(s[i..j]) for a run of digits.
IntOf(s, i, j) ==
    IF j < i THEN 0 ELSE IntOf(s, i, j - 1) * 10 + DigitVal(s[j])

\* The least index in positions, 0 when there is none (re.search finds the
\* leftmost match).
Leftmost(positions) ==
    IF positions = {} THEN 0
    ELSE CHOOSE i \in positions : \A j \in positions : i <= j

\* Where re.findall(r'\d+', s) has its first match, 0 without digits.
FirstDigit(s) == Leftmost({i \in 1..Len(s) : s[i] \in Digits})

RECURSIVE Join(_)
\* "".join(chars)
Join(chars) ==
    IF chars = <<>> THEN "" ELSE Head(chars) \o Join(Tail(chars))

Clamp(lo, hi, x) == Min(hi, Max(lo, x))

\* normalize_match_score without min/max on a number.
normalize_match_score_unclamped(v) ==
    CASE v.type = "null" -> 0
      [] v.type = "str" ->
            IF FirstDigit(v.chars) = 0 THEN 0
            ELSE Clamp(0, 100, IntOf(v.chars, FirstDigit(v.chars),
                                     DigitRunEnd(v.chars, FirstDigit(v.chars))))
      [] v.type = "int" -> v.val
      [] v.type = "float" -> v.val \div 100
      [] OTHER -> 0

\* MatchResult.normalize_match_score (mode='before').
normalize_match_score(v) ==
    CASE v.type = "null" -> 0
      [] v.type = "str" ->
            \* without digits int(float(v)) raises and the except returns 0
            IF FirstDigit(v.chars) = 0 THEN 0
            ELSE Clamp(0, 100, IntOf(v.chars, FirstDigit(v.chars),
                                     DigitRunEnd(v.chars, FirstDigit(v.chars))))
      [] v.type = "int" -> Clamp(0, 100, v.val)
      [] v.type = "float" -> Clamp(0, 100, v.val \div 100)
      [] OTHER -> 0

Whitespace == {" ", "\n", "\t"}

\* str.lower() on one character, over the capitals the sample texts use.
Lower(c) ==
    CASE c = "C" -> "c" [] c = "H" -> "h" [] c = "M" -> "m"
      [] c = "R" -> "r" [] c = "S" -> "s" [] OTHER -> c

LowerAll(s) == [i \in 1..Len(s) |-> Lower(s[i])]

RECURSIVE LStrip(_)
LStrip(s) == IF s # <<>> /\ Head(s) \in Whitespace THEN LStrip(Tail(s)) ELSE s

RECURSIVE RStrip(_)
RStrip(s) ==
    IF s # <<>> /\ s[Len(s)] \in Whitespace
    THEN RStrip(SubSeq(s, 1, Len(s) - 1)) ELSE s

\* str.strip()
Strip(s) == RStrip(LStrip(s))

\* confidence_map of normalize_confidence. Confidence values are fixed-point
\* numbers in hundredths (90 is 0.9); digits after the second decimal are cut.
confidence_map ==
    [w \in {"high", "very high", "medium", "medium high", "medium low", "low",
            "very low", "certain", "uncertain", "doubtful"} |->
        CASE w = "high" -> 90 [] w = "very high" -> 95 [] w = "medium" -> 70
          [] w = "medium high" -> 75 [] w = "medium low" -> 40 [] w = "low" -> 30
          [] w = "very low" -> 20 [] w = "certain" -> 100
          [] w = "uncertain" -> 50 [] w = "doubtful" -> 30]

\* s[i] starts "." followed by a digit: the optional group (\.\d+)? matches.
HasFraction(s, i) ==
    i + 1 <= Len(s) /\ s[i] = "." /\ s[i + 1] \in Digits

\* float("." + digits) in hundredths, the digits starting at s[i].
FracHundredths(s, i) ==
    DigitVal(s[i]) * 10 +
    (IF i < Len(s) /\ s[i + 1] \in Digits THEN DigitVal(s[i + 1]) ELSE 0)

\* Where r'(\d+(\.\d+)?)%' matches from the digit s[p]: the index of the "%",
\* 0 when the pattern does not match there.
PercentEnd(s, p) ==
    LET q == DigitRunEnd(s, p) IN
    IF q < Len(s) /\ s[q + 1] = "%" THEN q + 1
    ELSE IF HasFraction(s, q + 1)
            /\ DigitRunEnd(s, q + 2) < Len(s)
            /\ s[DigitRunEnd(s, q + 2) + 1] = "%"
         THEN DigitRunEnd(s, q + 2) + 1
         ELSE 0

\* re.search(r'(\d+(\.\d+)?)%', s): where the leftmost match starts, 0 for None.
PercentStart(s) ==
    Leftmost({p \in 1..Len(s) : s[p] \in Digits /\ PercentEnd(s, p) # 0})

\* float(v) for the strings that reach "Try direct conversion": an optional
\* sign and digits; anything else raises. <<ok, hundredths>>.
DirectFloat(s) ==
    LET negative == s # <<>> /\ Head(s) = "-"
        body == IF s # <<>> /\ Head(s) \in {"-", "+"} THEN Tail(s) ELSE s IN
    IF body # <<>> /\ \A i \in 1..Len(body) : body[i] \in Digits
    THEN <<TRUE, (IF negative THEN -1 ELSE 1) * IntOf(body, 1, Len(body)) * 100>>
    ELSE <<FALSE, 0>>

\* MatchResult.normalize_confidence (mode='before'), for a str.
normalize_confidence_str(chars) ==
    LET v_lower == Strip(LowerAll(chars))
        p == FirstDigit(chars) IN
    IF Join(v_lower) \in DOMAIN confidence_map
    THEN confidence_map[Join(v_lower)]
    ELSE IF (\E i \in 1..Len(chars) : chars[i] = "%") /\ PercentStart(chars) # 0
    THEN \* percentage / 100.0, returned without a clamp
         IntOf(chars, PercentStart(chars), DigitRunEnd(chars, PercentStart(chars)))
    ELSE IF p # 0 /\ HasFraction(chars, DigitRunEnd(chars, p) + 1)
    THEN \* findall returns the group (\.\d+)? of the first match: a fraction
         Clamp(0, 100, FracHundredths(chars, DigitRunEnd(chars, p) + 2))
    ELSE \* float('') raised or there is no digit: float(v), else 0.0
         IF DirectFloat(Strip(chars))[1]
         THEN Clamp(0, 100, DirectFloat(Strip(chars))[2])
         ELSE 0

\* MatchResult.normalize_confidence (mode='before').
normalize_confidence(v) ==
    CASE v.type = "null" -> 0
      [] v.type = "int" -> Clamp(0, 100, v.val * 100)
      [] v.type = "float" -> Clamp(0, 100, v.val)
      [] v.type = "str" -> normalize_confidence_str(v.chars)
      [] OTHER -> 0

RECURSIVE JoinSpaced(_)
\* " ".join(str(item) for item in items)
JoinSpaced(items) ==
    IF items = <<>> THEN ""
    ELSE IF Len(items) = 1 THEN Join(items[1])
    ELSE Join(items[1]) \o " " \o JoinSpaced(Tail(items))

\* MatchResult.normalize_reason (mode='before').
normalize_reason(v) ==
    CASE v.type = "null" -> ""
      [] v.type = "str" -> Join(v.chars)
      [] v.type = "list" -> JoinSpaced(v.items)
      [] v.type = "int" -> ToString(v.val)

\* The keys of the completion service's answers that the records read.
FieldNames == {"match_score", "confidence", "reason", "summary", "required_fields"}

\* "Allowed Fields" of the interpretation prompt.
AllowedFields ==
    {"name", "orgnr", "purpose", "companyType", "contact", "location", "industry",
     "registration", "governance", "financialSummary", "accountingHistory", "risks"}

\* What building a record ends in: raised is the exception class, "" when the
\* record was built.
Built(value) == [raised |-> "", value |-> value]
Raised(cls) == [raised |-> cls, value |-> [match_score |-> 0, confidence |-> 0, reason |-> ""]]

\* MatchResult(**parsed) for a dict: the 'before' validators run on the keys
\* that are present, then the Field constraints (match_score: ge=0, le=100;
\* confidence: ge=0.0, le=1.0) are checked. The keyword lists and processing_time are left out.
MatchResultFrom(fields) ==
    LET score == IF fields["match_score"] = Absent THEN 0
                 ELSE normalize_match_score(fields["match_score"])
        conf == IF fields["confidence"] = Absent THEN 0
                ELSE normalize_confidence(fields["confidence"])
        reason == IF fields["reason"] = Absent THEN ""
                  ELSE normalize_reason(fields["reason"]) IN
    IF score < 0 \/ score > 100 \/ conf < 0 \/ conf > 100
    THEN Raised("ValidationError")
    ELSE Built([match_score |-> score, confidence |-> conf, reason |-> reason])

\* CriteriaInfo.normalize_summary (mode='before').
normalize_summary(v) ==
    CASE v.type = "null" -> ""
      [] v.type = "list" -> JoinSpaced(v.items)
      [] v.type = "str" -> Join(v.chars)
      [] v.type = "int" -> ToString(v.val)

RECURSIVE SplitComma(_, _)
\* v.split(','): the pieces of chars, cur being the piece under way.
SplitComma(chars, cur) ==
    IF chars = <<>> THEN <<cur>>
    ELSE IF Head(chars) = "," THEN <<cur>> \o SplitComma(Tail(chars), <<>>)
    ELSE SplitComma(Tail(chars), Append(cur, Head(chars)))

\* [str(item).strip() for item in items if item]
StrippedItems(items) ==
    LET kept == SelectSeq(items, LAMBDA item : item # <<>>) IN
    [i \in 1..Len(kept) |-> Join(Strip(kept[i]))]

\* [item.strip() for item in items if item.strip()]
NonBlankItems(items) ==
    LET kept == SelectSeq(items, LAMBDA item : Strip(item) # <<>>) IN
    [i \in 1..Len(kept) |-> Join(Strip(kept[i]))]

\* CriteriaInfo.normalize_required_fields (mode='before'). Of the sample
\* strings json.loads accepts those made of digits alone (a number, so no
\* list): the function then falls through to `return []`.
normalize_required_fields(v) ==
    CASE v.type = "null" -> <<>>
      [] v.type = "str" ->
            IF v.chars # <<>> /\ \A i \in 1..Len(v.chars) : v.chars[i] \in Digits
            THEN <<>>
            ELSE NonBlankItems(SplitComma(v.chars, <<>>))
      [] v.type = "list" -> StrippedItems(v.items)
      [] OTHER -> <<>>

\* CriteriaInfo(**parsed) for a dict.
CriteriaInfoFrom(fields) ==
    Built([summary |-> IF fields["summary"] = Absent THEN ""
                       ELSE normalize_summary(fields["summary"]),
           required_fields |-> IF fields["required_fields"] = Absent THEN <<>>
                               ELSE normalize_required_fields(fields["required_fields"])])

\* The characters of the words the fallback patterns look for.
WordMatch == <<"m", "a", "t", "c", "h">>
WordScore == <<"s", "c", "o", "r", "e">>
WordConfidence == <<"c", "o", "n", "f", "i", "d", "e", "n", "c", "e">>
WordReason == <<"r", "e", "a", "s", "o", "n">>
WordHigh == <<"h", "i", "g", "h">>
WordMedium == <<"m", "e", "d", "i", "u", "m">>
WordLow == <<"l", "o", "w">>

\* word occurs in s at index i.
StartsAt(s, i, word) ==
    /\ i >= 1
    /\ i + Len(word) - 1 <= Len(s)
    /\ SubSeq(s, i, i + Len(word) - 1) = word

\* `sub in s`
Contains(s, sub) == \E i \in 1..Len(s) : StartsAt(s, i, sub)

RECURSIVE SkipBlanks(_, _)
\* [\s:]* matched greedily from index i: the index after it.
SkipBlanks(s, i) ==
    IF i <= Len(s) /\ s[i] \in Whitespace \cup {":"}
    THEN SkipBlanks(s, i + 1) ELSE i

\* r'match[_\s-]?score[\s:]*(\d+)' from index i of the lowered text: the index
\* of the first digit of the group, 0 when the pattern does not match there.
ScoreGroupAt(s, i) ==
    LET j == i + Len(WordMatch)
        k == IF StartsAt(s, j, WordScore) THEN j
             ELSE IF j <= Len(s) /\ s[j] \in Whitespace \cup {"_", "-"}
                     /\ StartsAt(s, j + 1, WordScore)
             THEN j + 1 ELSE 0
        d == SkipBlanks(s, k + Len(WordScore)) IN
    IF StartsAt(s, i, WordMatch) /\ k # 0 /\ d <= Len(s) /\ s[d] \in Digits
    THEN d ELSE 0

\* The characters \w matches.
WordChars ==
    Digits \cup {"_", "a", "b", "c", "d", "e", "f", "g", "h", "i", "j", "k", "l",
                 "m", "n", "o", "p", "q", "r", "s", "t", "u", "v", "w", "x",
                 "y", "z"}

RECURSIVE WordRunEnd(_, _)
\* \w+ matched greedily from s[i]: the index of its last character.
WordRunEnd(s, i) ==
    IF i < Len(s) /\ s[i + 1] \in WordChars THEN WordRunEnd(s, i + 1) ELSE i

\* Where the group of r'confidence[\s:]*(...)' would start for the occurrence
\* of "confidence" at index i.
ConfidenceGroupAt(s, i) == SkipBlanks(s, i + Len(WordConfidence))

\* The confidence _extract_match_result puts in its dict (hundredths): the
\* three patterns are tried in order and the first that matches decides.
ExtractedConfidence(content) ==
    LET s == LowerAll(content)
        at == {i \in 1..Len(s) : StartsAt(s, i, WordConfidence)}
        \* r'confidence[\s:]*(\d+(\.\d+)?)'
        p1 == Leftmost({i \in at : ConfidenceGroupAt(s, i) <= Len(s)
                                   /\ s[ConfidenceGroupAt(s, i)] \in Digits})
        \* r'confidence[\s:]*(\d+)%'
        p2 == Leftmost({i \in at : ConfidenceGroupAt(s, i) <= Len(s)
                  /\ s[ConfidenceGroupAt(s, i)] \in Digits
                  /\ DigitRunEnd(s, ConfidenceGroupAt(s, i)) < Len(s)
                  /\ s[DigitRunEnd(s, ConfidenceGroupAt(s, i)) + 1] = "%"})
        \* r'confidence[\s:]*(\w+)'
        p3 == Leftmost({i \in at : ConfidenceGroupAt(s, i) <= Len(s)
                                   /\ s[ConfidenceGroupAt(s, i)] \in WordChars}) IN
    IF p1 # 0
    THEN \* '%' is not in this pattern: float(group) as it stands
         LET g == ConfidenceGroupAt(s, p1)
             q == DigitRunEnd(s, g) IN
         IntOf(s, g, q) * 100 +
         (IF HasFraction(s, q + 1) THEN FracHundredths(s, q + 2) ELSE 0)
    ELSE IF p2 # 0
    THEN \* float(group) / 100.0
         LET g == ConfidenceGroupAt(s, p2) IN
         IntOf(s, g, DigitRunEnd(s, g))
    ELSE IF p3 # 0
    THEN \* float(word) raises for a word without digits: the text levels
         LET g == ConfidenceGroupAt(s, p3)
             conf_text == SubSeq(s, g, WordRunEnd(s, g)) IN
         IF Contains(conf_text, WordHigh) THEN 90
         ELSE IF Contains(conf_text, WordMedium) THEN 70
         ELSE IF Contains(conf_text, WordLow) THEN 30
         ELSE 50
    ELSE 0

\* The first index >= i of s that holds a character of stops, 0 for none.
FirstOf(s, i, stops) == Leftmost({j \in i..Len(s) : s[j] \in stops})

\* The reason _extract_match_result puts in its dict: the text after
\* "reason" up to the first full stop, else the first sentence.
ExtractedReason(content) ==
    LET s == LowerAll(content)
        \* r'reason[\s:]*([^.]+\.)': the start of the group at an occurrence
        GroupAt(i) ==
            LET a == SkipBlanks(s, i + Len(WordReason)) IN
            IF a <= Len(s) /\ s[a] # "." THEN a
            ELSE IF a <= Len(s) /\ a > i + Len(WordReason) THEN a - 1
            ELSE 0
        at == {i \in 1..Len(s) : /\ StartsAt(s, i, WordReason)
                                 /\ GroupAt(i) # 0
                                 /\ FirstOf(s, GroupAt(i) + 1, {"."}) # 0}
        first_stop == FirstOf(content, 1, {".", "!", "?"})
        first_sentence == IF first_stop = 0 THEN content
                          ELSE SubSeq(content, 1, first_stop - 1) IN
    IF at # {}
    THEN Strip(SubSeq(content, GroupAt(Leftmost(at)),
                      FirstOf(s, GroupAt(Leftmost(at)) + 1, {"."})))
    ELSE Strip(first_sentence)

\* _extract_match_result: the regex fallback, then MatchResult(**result) with
\* its validators on the numbers found.
_extract_match_result(content) ==
    LET s == LowerAll(content)
        hit == Leftmost({i \in 1..Len(s) : ScoreGroupAt(s, i) # 0})
        match_score == IF hit = 0 THEN 0
                       ELSE Min(100, IntOf(s, ScoreGroupAt(s, hit),
                                           DigitRunEnd(s, ScoreGroupAt(s, hit)))) IN
    MatchResultFrom(
        [f \in FieldNames |->
            CASE f = "match_score" -> JsonInt(match_score)
              [] f = "confidence" -> JsonFloat(ExtractedConfidence(content))
              [] f = "reason" -> JsonStr(ExtractedReason(content))
              [] OTHER -> Absent])

\* One text of the completion service. kind says what json.loads and the
\* patterns of _parse_llm_response find in it:
\*   "json"    the whole text is JSON (is_object: a dict, else a list, a
\*             number, a string or null);
\*   "wrapped" prose around one {...} object;
\*   "fenced"  JSON inside Markdown code fences;
\*   "prose"   no JSON at all.
\* fields is the dict when there is one, chars the text outside the JSON.
Content(kind, is_object, fields, chars) ==
    [kind |-> kind, is_object |-> is_object, fields |-> fields, chars |-> chars]

ResponseModels == {"MatchResult", "CriteriaInfo"}

\* response_model(**parsed): a parsed value that is no dict is a TypeError.
Construct(content, response_model) ==
    IF ~content.is_object THEN Raised("TypeError")
    ELSE IF response_model = "MatchResult" THEN MatchResultFrom(content.fields)
    ELSE CriteriaInfoFrom(content.fields)

\* "Strategy 4": manual extraction, or the CriteriaInfo default.
ManualExtraction(content, response_model) ==
    IF response_model = "MatchResult" THEN _extract_match_result(content.chars)
    ELSE Built([summary |-> "Failed to parse response", required_fields |-> <<>>])

\* _parse_llm_response. Strategy 1 and 3 catch json.JSONDecodeError only, so
\* what the constructor raises leaves the function; strategy 2 (the regex
\* finds {...} only) catches everything and goes on: for fenced JSON the
\* constructor runs again in strategy 3 and raises there.
_parse_llm_response(content, response_model) ==
    CASE content.kind = "json" -> Construct(content, response_model)
      [] content.kind = "wrapped" ->
            IF Construct(content, response_model).raised = ""
            THEN Construct(content, response_model)
            ELSE ManualExtraction(content, response_model)
      [] content.kind = "fenced" -> Construct(content, response_model)
      [] OTHER -> ManualExtraction(content, response_model)

\* evaluation when nothing runs. op names the function run, args its
\* arguments, result what it returned or raised, calls the completion-service
\* calls it made, failure the failure path it took ("" for none).
NoEvaluation ==
    [pc |-> "idle", op |-> "none", args |-> <<>>, result |-> <<>>, calls |-> 0,
     failure |-> ""]

Init ==
    /\ world \in Worlds
    /\ phase = [r \in Reqs |-> "idle"]
    /\ request = [r \in Reqs |-> NoRequest]
    /\ overall_timeout = [r \in Reqs |-> 0]
    /\ semaphore = [r \in Reqs |-> 0]
    /\ criteria_cache = {}
    /\ criteria_info = [r \in Reqs |-> None]
    /\ interp_calls = [c \in CriteriaTexts |-> 0]
    /\ chunk_start = [r \in Reqs |-> 0]
    /\ all_results = [r \in Reqs |-> <<>>]
    /\ batch_tasks = [r \in Reqs |-> <<>>]
    /\ response = [r \in Reqs |-> NoResponse]
    /\ external = [r \in Reqs |-> {}]
    /\ llm = [c \in Callers |-> NoCall]
    /\ evaluation = NoEvaluation

\* ------------------------------------------------- the request handlers
RECURSIVE ItemsOf(_)
\* Org numbers of the accepted requests 1..r.
ItemsOf(r) ==
    IF r = 0 THEN 0
    ELSE ItemsOf(r - 1) +
         (IF Len(request[r].org_numbers) <= MaxCompanies
          THEN Len(request[r].org_numbers) ELSE 0)

HasCriteria(r) == TruthyStr(request[r].criteria)

BatchSizeOf(r) == request[r].batch_size

\* The tasks asyncio.gather is given for the chunk that starts at i.
LaunchChunk(r, i) ==
    [k \in 1..Len(Slice(request[r].org_numbers, i, BatchSizeOf(r))) |-> NewTask]

\* The for loop is entered: its first chunk is launched, or, when range() is
\* empty, the function returns the empty all_results at once.
EnterLoop(r) ==
    /\ all_results' = [all_results EXCEPT ![r] = <<>>]
    /\ chunk_start' = [chunk_start EXCEPT ![r] = 0]
    /\ IF RangeStarts(Len(request[r].org_numbers), BatchSizeOf(r)) = {}
       THEN /\ phase' = [phase EXCEPT ![r] = "Aggregating"]
            /\ batch_tasks' = [batch_tasks EXCEPT ![r] = <<>>]
       ELSE /\ phase' = [phase EXCEPT ![r] = "Running"]
            /\ batch_tasks' = [batch_tasks EXCEPT ![r] = LaunchChunk(r, 0)]

\* ValidationError without the check for an empty list.
ValidationErrorEmptyAccepted(orgs) ==
    IF Len(orgs) > MaxCompanies THEN "Maximum 100 companies per batch" ELSE ""

\* "Validate input": the detail of the 400 answer, "" for an accepted list.
ValidationError(orgs) ==
    IF Len(orgs) = 0 THEN "No organization numbers provided"
    ELSE IF Len(orgs) > MaxCompanies THEN "Maximum 100 companies per batch"
    ELSE ""

\* A request reaches evaluate_batch_companies or test_evaluate_batch_companies:
\* get_matcher builds its CompanyMatcher (a new semaphore), the input is
\* validated and the overall timeout computed.
Arrive(r) ==
    /\ phase[r] = "idle"
    /\ \A q \in Reqs : q < r => phase[q] # "idle"
    /\ r = 1 \/ world = "reliable"
    /\ \E orgs \in OrgLists, c \in CriteriaArgs, b \in BatchSizeArgs, e \in Endpoints :
        /\ Len(orgs) > MaxCompanies \/ ItemsOf(MaxReqs) + Len(orgs) <= MaxItems
        /\ semaphore' = [semaphore EXCEPT ![r] = MaxConcurrent]
        /\ IF ValidationError(orgs) # ""
           THEN /\ phase' = [phase EXCEPT ![r] = "Rejected"]
                /\ response' = [response EXCEPT ![r] =
                      HTTPException(400, ValidationError(orgs))]
                /\ UNCHANGED <<request, overall_timeout>>
           ELSE /\ phase' = [phase EXCEPT ![r] = "Validated"]
                /\ request' = [request EXCEPT ![r] =
                      [org_numbers |-> orgs, criteria |-> c,
                       batch_size |-> EffectiveBatchSize(b), endpoint |-> e]]
                /\ overall_timeout' =
                      [overall_timeout EXCEPT ![r] = OverallTimeout(Len(orgs))]
                /\ UNCHANGED response
    /\ UNCHANGED <<evaluation, llm, world, criteria_cache, criteria_info, interp_calls, chunk_start,
                   all_results, batch_tasks, external>>

\* process_batch_without_criteria starts.
StartRetrievalBatch(r) ==
    /\ phase[r] = "Validated"
    /\ ~HasCriteria(r)
    /\ EnterLoop(r)
    /\ UNCHANGED <<evaluation, llm, world, request, overall_timeout, semaphore, criteria_cache,
                   criteria_info, interp_calls, response, external>>

\* The lru_cache entry for (self, criteria_hash, criteria): self is the matcher
\* of request r, the hash is a function of the text.
CacheEntry(r, text) ==
    {e \in criteria_cache : e.matcher = r /\ e.criteria = text}

\* process_batch_with_criteria starts: the criteria are interpreted through
\* the cache by a blocking call, then the loop is entered. The call raising
\* leaves the handler as an unhandled error.
StartCriteriaBatch(r) ==
    /\ phase[r] = "Validated"
    /\ HasCriteria(r)
    /\ LET text == request[r].criteria[1] IN
       IF CacheEntry(r, text) # {}
       THEN /\ criteria_info' = [criteria_info EXCEPT ![r] =
                  Some((CHOOSE e \in CacheEntry(r, text) : TRUE).info)]
            /\ EnterLoop(r)
            /\ UNCHANGED <<criteria_cache, interp_calls, external, response>>
       ELSE /\ interp_calls' = [interp_calls EXCEPT ![text] = @ + 1]
            /\ external' = [external EXCEPT ![r] = @ \cup {"completion"}]
            /\ \E answer \in CriteriaInfoSamples \cup
                             (IF world = "faulty" THEN {"raise"} ELSE {}) :
                IF answer = "raise"
                THEN /\ phase' = [phase EXCEPT ![r] = "Failed"]
                     /\ response' = [response EXCEPT ![r] =
                           HTTPException(500, "Internal Server Error")]
                     /\ UNCHANGED <<criteria_cache, criteria_info, chunk_start,
                                    all_results, batch_tasks>>
                ELSE /\ criteria_cache' = criteria_cache \cup
                           {[matcher |-> r, criteria |-> text, info |-> answer]}
                     /\ criteria_info' = [criteria_info EXCEPT ![r] = Some(answer)]
                     /\ EnterLoop(r)
                     /\ UNCHANGED response
    /\ UNCHANGED <<evaluation, llm, world, request, overall_timeout, semaphore>>

\* ------------------------------------------------------------ the items
\* The org number of task k of the chunk being gathered (batch_orgs[k-1]).
OrgOf(r, k) == request[r].org_numbers[chunk_start[r] + k]

SetTask(r, k, task) == batch_tasks' = [batch_tasks EXCEPT ![r][k] = task]

Calls(r, who) == external' = [external EXCEPT ![r] = @ \cup {who}]

TaskAt(r, k, pcs) ==
    /\ phase[r] = "Running"
    /\ k \in 1..Len(batch_tasks[r])
    /\ batch_tasks[r][k].pc \in pcs

\* RetrievalOutcome with the score fields of the criteria batch (0 for None).
RetrievalOutcomeScored(org, res) ==
    IF res.kind = "data"
    THEN Outcome(org, TRUE, Some(0),
                 "Data retrieved successfully - no criteria evaluation",
                 Some(0), "success", None, Some("profile"))
    ELSE FailedRetrieval(org, "Failed to retrieve company data",
                         "Company data not found or incomplete")

\* The outcome of process_single_company of the retrieval-only batch for what
\* get_company_data ended in.
RetrievalOutcome(org, res) ==
    CASE res.kind = "data" ->
            Outcome(org, TRUE, None,
                    "Data retrieved successfully - no criteria evaluation",
                    None, "success", None, Some("profile"))
      [] res.kind \in {"nameless", "none"} ->
            FailedRetrieval(org, "Failed to retrieve company data",
                            "Company data not found or incomplete")
      [] res.kind = "timeout" ->
            FailedRetrieval(org, "Timeout after 120.0 seconds",
                            "Timeout after 120.0 seconds")
      [] OTHER ->
            FailedRetrieval(org, "Error: " \o res.msg, res.msg)

\* Retrieval-only batch: get_company_data returns, times out or raises, and
\* the item is finished.
RetrieveOnly(r, k) ==
    /\ TaskAt(r, k, {"fetch"})
    /\ ~HasCriteria(r)
    /\ \E res \in CallResultsIn(world) :
          SetTask(r, k, Finished(batch_tasks[r][k], RetrievalOutcome(OrgOf(r, k), res)))
    /\ Calls(r, "provider")
    /\ UNCHANGED <<evaluation, llm, world, phase, request, overall_timeout, semaphore, criteria_cache,
                   criteria_info, interp_calls, chunk_start, all_results, response>>

\* ItemError without the "error" key.
ItemErrorNoKey(org, msg) ==
    Outcome(org, FALSE, Some(0), "Error: " \o msg, Some(0), "failed", None, None)

\* The outer `except Exception` of the criteria batch's process_single_company.
ItemError(org, msg) == FailedEval(org, "Error: " \o msg, msg, None)

\* Criteria batch: get_company_data returns, times out or raises.
FetchData(r, k) ==
    /\ TaskAt(r, k, {"fetch"})
    /\ HasCriteria(r)
    /\ \E res \in CallResultsIn(world) :
        LET task == batch_tasks[r][k]
            org == OrgOf(r, k) IN
        CASE res.kind = "timeout" ->
                SetTask(r, k, Finished(task,
                    FailedEval(org, "Timeout retrieving company data after 120.0s",
                               "Timeout after 120.0 seconds", None)))
          [] res.kind = "none" ->
                SetTask(r, k, Finished(task,
                    FailedEval(org, "Failed to retrieve company data",
                               "Company data not found", None)))
          [] res.kind = "raise" ->
                SetTask(r, k, Finished(task, ItemError(org, res.msg)))
          [] OTHER ->
                SetTask(r, k, [task EXCEPT !.pc = "clean",
                                           !.company_data = Some("profile")])
    /\ Calls(r, "provider")
    /\ UNCHANGED <<evaluation, llm, world, phase, request, overall_timeout, semaphore, criteria_cache,
                   criteria_info, interp_calls, chunk_start, all_results, response>>

\* Criteria batch: clean_company_info returns, times out or raises; with data
\* the evaluation is started under its 60 s limit.
CleanData(r, k) ==
    /\ TaskAt(r, k, {"clean"})
    /\ \E res \in CallResultsIn(world) :
        LET task == batch_tasks[r][k]
            org == OrgOf(r, k) IN
        CASE res.kind = "timeout" ->
                SetTask(r, k, Finished(task,
                    FailedEval(org, "Timeout retrieving cleaned company data after 120.0s",
                               "Timeout after 120.0 seconds", task.company_data)))
          [] res.kind = "none" ->
                SetTask(r, k, Finished(task,
                    FailedEval(org, "Failed to retrieve cleaned company data",
                               "Cleaned company data not found", task.company_data)))
          [] res.kind = "raise" ->
                SetTask(r, k, Finished(task, ItemError(org, res.msg)))
          [] OTHER ->
                SetTask(r, k, [task EXCEPT !.pc = "eval_wait", !.tries = 1])
    /\ Calls(r, "provider")
    /\ UNCHANGED <<evaluation, llm, world, phase, request, overall_timeout, semaphore, criteria_cache,
                   criteria_info, interp_calls, chunk_start, all_results, response>>

\* Acquire without the semaphore: the attempt submits at once.
AcquireUnbounded(r, k) ==
    /\ TaskAt(r, k, {"eval_wait"})
    /\ semaphore' = [semaphore EXCEPT ![r] = @ - 1]
    /\ SetTask(r, k, [batch_tasks[r][k] EXCEPT !.pc = "calling"])
    /\ Calls(r, "completion")
    /\ UNCHANGED <<evaluation, llm, world, phase, request, overall_timeout, criteria_cache,
                   criteria_info, interp_calls, chunk_start, all_results, response>>

\* `async with self._semaphore`: an attempt takes a permit and submits its
\* request to the completion service.
Acquire(r, k) ==
    /\ TaskAt(r, k, {"eval_wait"})
    /\ semaphore[r] > 0
    /\ semaphore' = [semaphore EXCEPT ![r] = @ - 1]
    /\ SetTask(r, k, [batch_tasks[r][k] EXCEPT !.pc = "calling"])
    /\ Calls(r, "completion")
    /\ UNCHANGED <<evaluation, llm, world, phase, request, overall_timeout, criteria_cache, criteria_info,
                   interp_calls, chunk_start, all_results, response>>

\* The item's state after an attempt raised cls: the decorator waits and calls
\* again, or the error reaches _async_evaluate_match_with_criteria_info, whose
\* zero-score MatchResult becomes the item's outcome.
AfterAttemptError(task, org, cls, max_time_exceeded) ==
    IF RetriesAfter(cls, task.tries, max_time_exceeded)
    THEN [task EXCEPT !.pc = "backoff"]
    ELSE Finished(task, EvaluatedOutcome(org, EvaluationFailed(cls), task.company_data))

\* AttemptReturn that leaves the semaphore as it is: the permit of a finished
\* attempt is not given back.
AttemptReturnKeepsPermit(r, k) ==
    /\ TaskAt(r, k, {"calling"})
    /\ LET task == batch_tasks[r][k]
           org == OrgOf(r, k) IN
       \/ \E m \in MatchResultSamples :
             SetTask(r, k, Finished(task, EvaluatedOutcome(org, m, task.company_data)))
       \/ \E cls \in AttemptErrorsIn(world), max_time_exceeded \in BOOLEAN :
             SetTask(r, k, AfterAttemptError(task, org, cls, max_time_exceeded))
    /\ UNCHANGED <<evaluation, llm, world, phase, request, overall_timeout, criteria_cache, criteria_info,
                   interp_calls, chunk_start, all_results, response, external, semaphore>>

\* An attempt ends: the permit is given back; the parsed answer becomes the
\* item's outcome, or the attempt raised.
AttemptReturn(r, k) ==
    /\ TaskAt(r, k, {"calling"})
    /\ semaphore' = [semaphore EXCEPT ![r] = @ + 1]
    /\ LET task == batch_tasks[r][k]
           org == OrgOf(r, k) IN
       \/ \E m \in MatchResultSamples :
             SetTask(r, k, Finished(task, EvaluatedOutcome(org, m, task.company_data)))
       \/ \E cls \in AttemptErrorsIn(world), max_time_exceeded \in BOOLEAN :
             SetTask(r, k, AfterAttemptError(task, org, cls, max_time_exceeded))
    /\ UNCHANGED <<evaluation, llm, world, phase, request, overall_timeout, criteria_cache, criteria_info,
                   interp_calls, chunk_start, all_results, response, external>>

\* The backoff delay is over: the decorator calls the function again.
BackoffDone(r, k) ==
    /\ TaskAt(r, k, {"backoff"})
    /\ SetTask(r, k, [batch_tasks[r][k] EXCEPT !.pc = "eval_wait", !.tries = @ + 1])
    /\ UNCHANGED <<evaluation, llm, world, phase, request, overall_timeout, semaphore, criteria_cache,
                   criteria_info, interp_calls, chunk_start, all_results, response,
                   external>>

\* Permits the tasks hold (those inside `async with self._semaphore`).
Holding(tasks) == Cardinality({k \in 1..Len(tasks) : tasks[k].pc = "calling"})

\* EvalTimeout as one limit around the whole chunk: every unfinished item of
\* the chunk is cancelled with it.
EvalTimeoutCancelsChunk(r, k) ==
    /\ world = "faulty"
    /\ TaskAt(r, k, {"eval_wait", "calling", "backoff"})
    /\ semaphore' = [semaphore EXCEPT ![r] = @ + Holding(batch_tasks[r])]
    /\ batch_tasks' = [batch_tasks EXCEPT ![r] =
          [j \in 1..Len(batch_tasks[r]) |->
              IF batch_tasks[r][j].pc = "done" THEN batch_tasks[r][j]
              ELSE Finished(batch_tasks[r][j],
                      FailedEval(OrgOf(r, j), "Timeout evaluating match criteria",
                                 "Match evaluation timeout",
                                 batch_tasks[r][j].company_data))]]
    /\ UNCHANGED <<evaluation, llm, world, phase, request, overall_timeout, criteria_cache, criteria_info,
                   interp_calls, chunk_start, all_results, response, external>>

\* EvalTimeout that cancels the evaluation without giving a held permit back.
EvalTimeoutKeepsPermit(r, k) ==
    /\ world = "faulty"
    /\ TaskAt(r, k, {"eval_wait", "calling", "backoff"})
    /\ SetTask(r, k, Finished(batch_tasks[r][k],
          FailedEval(OrgOf(r, k), "Timeout evaluating match criteria",
                     "Match evaluation timeout", batch_tasks[r][k].company_data)))
    /\ UNCHANGED <<evaluation, llm, world, phase, request, overall_timeout, criteria_cache, criteria_info,
                   interp_calls, chunk_start, all_results, response, external, semaphore>>

\* asyncio.wait_for(..., timeout=60.0) fires: the evaluation is cancelled
\* wherever it stands, a held permit is given back.
EvalTimeout(r, k) ==
    /\ world = "faulty"
    /\ TaskAt(r, k, {"eval_wait", "calling", "backoff"})
    /\ LET task == batch_tasks[r][k] IN
        /\ semaphore' = [semaphore EXCEPT ![r] =
              IF task.pc = "calling" THEN @ + 1 ELSE @]
        /\ SetTask(r, k, Finished(task,
              FailedEval(OrgOf(r, k), "Timeout evaluating match criteria",
                         "Match evaluation timeout", task.company_data)))
    /\ UNCHANGED <<evaluation, llm, world, phase, request, overall_timeout, criteria_cache, criteria_info,
                   interp_calls, chunk_start, all_results, response, external>>

\* ------------------------------------------------- chunks and the deadline
\* "Handle any exceptions that weren't caught": a gathered result that is an
\* exception object becomes a failed outcome (score is None without criteria).
HandleUncaught(result, org, with_criteria) ==
    IF result.kind = "outcome" THEN result.value
    ELSE IF with_criteria
         THEN FailedEval(org, "Unexpected error: " \o result.msg, result.msg, None)
         ELSE FailedRetrieval(org, "Unexpected error: " \o result.msg, result.msg)

\* batch_results of asyncio.gather: one entry per task, in the tasks' order.
BatchResults(r) ==
    [k \in 1..Len(batch_tasks[r]) |->
        HandleUncaught(batch_tasks[r][k].result[1], OrgOf(r, k), HasCriteria(r))]

\* ChunkDone that does not wait for the slowest item: the loop goes on once
\* one task of the chunk is done, with the outcomes that are there.
ChunkDoneEager(r) ==
    /\ phase[r] = "Running"
    /\ \E k \in 1..Len(batch_tasks[r]) : batch_tasks[r][k].pc = "done"
    /\ all_results' = [all_results EXCEPT ![r] = @ \o
          [k \in 1..Len(SelectSeq(batch_tasks[r], LAMBDA t : t.pc = "done")) |->
              SelectSeq(batch_tasks[r], LAMBDA t : t.pc = "done")[k].result[1].value]]
    /\ batch_tasks' = [batch_tasks EXCEPT ![r] = <<>>]
    /\ phase' = [phase EXCEPT ![r] =
          IF chunk_start[r] + BatchSizeOf(r) < Len(request[r].org_numbers)
          THEN "Pacing" ELSE "Aggregating"]
    /\ UNCHANGED <<evaluation, llm, world, request, overall_timeout, semaphore, criteria_cache,
                   criteria_info, interp_calls, chunk_start, response, external>>

\* Every task of the chunk is done: gather returns, the chunk's results are
\* appended, and the loop sleeps before the next chunk or the function returns.
ChunkDone(r) ==
    /\ phase[r] = "Running"
    /\ \A k \in 1..Len(batch_tasks[r]) : batch_tasks[r][k].pc = "done"
    /\ all_results' = [all_results EXCEPT ![r] = @ \o BatchResults(r)]
    /\ batch_tasks' = [batch_tasks EXCEPT ![r] = <<>>]
    /\ phase' = [phase EXCEPT ![r] =
          IF chunk_start[r] + BatchSizeOf(r) < Len(request[r].org_numbers)
          THEN "Pacing" ELSE "Aggregating"]
    /\ UNCHANGED <<evaluation, llm, world, request, overall_timeout, semaphore, criteria_cache,
                   criteria_info, interp_calls, chunk_start, response, external>>

\* asyncio.sleep(0.5) is over: the next chunk is launched.
NextChunk(r) ==
    /\ phase[r] = "Pacing"
    /\ chunk_start' = [chunk_start EXCEPT ![r] = @ + BatchSizeOf(r)]
    /\ batch_tasks' = [batch_tasks EXCEPT ![r] =
          LaunchChunk(r, chunk_start[r] + BatchSizeOf(r))]
    /\ phase' = [phase EXCEPT ![r] = "Running"]
    /\ UNCHANGED <<evaluation, llm, world, request, overall_timeout, semaphore, criteria_cache,
                   criteria_info, interp_calls, all_results, response, external>>

\* BatchTimeout that keeps what the finished chunks produced.
BatchTimeoutPartial(r) ==
    /\ world = "faulty"
    /\ phase[r] \in {"Running", "Pacing"}
    /\ semaphore' = [semaphore EXCEPT ![r] = @ + Holding(batch_tasks[r])]
    /\ batch_tasks' = [batch_tasks EXCEPT ![r] = <<>>]
    /\ phase' = [phase EXCEPT ![r] = "TimedOut"]
    /\ response' = [response EXCEPT ![r] = HTTPException(504, "Batch processing timed out")]
    /\ UNCHANGED <<evaluation, llm, world, request, overall_timeout, criteria_cache,
                   criteria_info, interp_calls, chunk_start, external, all_results>>

\* asyncio.wait_for(..., timeout=overall_timeout) fires: the batch and its
\* tasks are cancelled (held permits are given back), nothing it produced is
\* kept, and the handler answers 504.
BatchTimeout(r) ==
    /\ world = "faulty"
    /\ phase[r] \in {"Running", "Pacing"}
    /\ semaphore' = [semaphore EXCEPT ![r] = @ + Holding(batch_tasks[r])]
    /\ batch_tasks' = [batch_tasks EXCEPT ![r] = <<>>]
    /\ all_results' = [all_results EXCEPT ![r] = <<>>]
    /\ phase' = [phase EXCEPT ![r] = "TimedOut"]
    /\ response' = [response EXCEPT ![r] = HTTPException(504, "Batch processing timed out")]
    /\ UNCHANGED <<evaluation, llm, world, request, overall_timeout, criteria_cache, criteria_info,
                   interp_calls, chunk_start, external>>

\* ------------------------------------------------ aggregation and delivery
IsSuccess(outcome) == outcome.status = "success"
IsMatch(outcome) == outcome.is_match = TRUE

\* sum(1 for r in results if r.get("status") == "success")
successful(results) ==
    Cardinality({k \in 1..Len(results) : IsSuccess(results[k])})

\* sum(1 for r in results if r.get("is_match") is True)
match_count(results) ==
    Cardinality({k \in 1..Len(results) : IsMatch(results[k])})

\* "Calculate metrics" and the summary of the response.
Summary(r) ==
    LET results == all_results[r] IN
    [total |-> Len(request[r].org_numbers),
     successful |-> successful(results),
     failed |-> Len(results) - successful(results),
     matches |-> IF HasCriteria(r) THEN Some(match_count(results)) ELSE None]

\* test_evaluate_batch_companies returns the summary and the results.
ReturnInline(r) ==
    /\ phase[r] = "Aggregating"
    /\ request[r].endpoint = "test-evaluate-batch"
    /\ response' = [response EXCEPT ![r] =
          [status_code |-> 200, detail |-> "", status |-> None, summary |-> Some(Summary(r)),
           inline |-> TRUE]]
    /\ phase' = [phase EXCEPT ![r] = "Done"]
    /\ UNCHANGED <<evaluation, llm, world, request, overall_timeout, semaphore, criteria_cache,
                   criteria_info, interp_calls, chunk_start, all_results,
                   batch_tasks, external>>

\* evaluate_batch_companies builds the payload and posts it to CALLBACK_URL.
SendCallback(r) ==
    /\ phase[r] = "Aggregating"
    /\ request[r].endpoint = "evaluate-batch"
    /\ phase' = [phase EXCEPT ![r] = "Delivering"]
    /\ Calls(r, "callback")
    /\ UNCHANGED <<evaluation, llm, world, request, overall_timeout, semaphore, criteria_cache,
                   criteria_info, interp_calls, chunk_start, all_results,
                   batch_tasks, response>>

\* What the POST can end in: an HTTP status, a timeout, a transport error.
CallbackAnswers == {"200", "204", "500", "timeout", "error"}

CallbackAnswersIn(w) == IF w = "faulty" THEN CallbackAnswers ELSE {"200"}

\* callback_status for what the POST ended in.
CallbackStatus(answer) ==
    CASE answer = "timeout" -> "timeout"
      [] answer = "error" -> "error"
      [] answer # "200" -> "failed"
      [] OTHER -> "success"

\* CallbackReturn that lets a failed delivery fail the request.
CallbackReturnRaising(r) ==
    /\ phase[r] = "Delivering"
    /\ \E answer \in CallbackAnswersIn(world) :
          IF CallbackStatus(answer) = "success"
          THEN /\ response' = [response EXCEPT ![r] =
                     [status_code |-> 200, detail |-> "",
                      status |-> Some("success"),
                      summary |-> Some(Summary(r)), inline |-> FALSE]]
               /\ phase' = [phase EXCEPT ![r] = "Done"]
          ELSE /\ response' = [response EXCEPT ![r] =
                     HTTPException(500, "Internal Server Error")]
               /\ phase' = [phase EXCEPT ![r] = "Failed"]
    /\ UNCHANGED <<evaluation, llm, world, request, overall_timeout, semaphore,
                   criteria_cache, criteria_info, interp_calls, chunk_start,
                   all_results, batch_tasks, external>>

\* The POST ends; the handler returns callback_status and the summary.
CallbackReturn(r) ==
    /\ phase[r] = "Delivering"
    /\ \E answer \in CallbackAnswersIn(world) :
          response' = [response EXCEPT ![r] =
              [status_code |-> 200, detail |-> "",
               status |-> Some(CallbackStatus(answer)),
               summary |-> Some(Summary(r)), inline |-> FALSE]]
    /\ phase' = [phase EXCEPT ![r] = "Done"]
    /\ UNCHANGED <<evaluation, llm, world, request, overall_timeout, semaphore, criteria_cache,
                   criteria_info, interp_calls, chunk_start, all_results,
                   batch_tasks, external>>

\* ------------------------------------------------------- specification
Next ==
    \E r \in Reqs :
        \/ Arrive(r)
        \/ StartRetrievalBatch(r)
        \/ StartCriteriaBatch(r)
        \/ ChunkDone(r)
        \/ NextChunk(r)
        \/ BatchTimeout(r)
        \/ ReturnInline(r)
        \/ SendCallback(r)
        \/ CallbackReturn(r)
        \/ \E k \in 1..MaxItems :
            \/ RetrieveOnly(r, k)
            \/ FetchData(r, k)
            \/ CleanData(r, k)
            \/ Acquire(r, k)
            \/ AttemptReturn(r, k)
            \/ BackoffDone(r, k)
            \/ EvalTimeout(r, k)

Spec == Init /\ [][Next]_vars

\* ------------------------------------------------ the batch under fairness
\* The event loop runs every coroutine that can run, and every awaited call
\* of an item ends: it returns or raises, or its wait_for fires. The item
\* steps and the loop steps are therefore weakly fair. Nothing makes a 60 s
\* limit or the batch deadline fire, or a request arrive.
Fairness ==
    \A r \in Reqs :
        /\ WF_vars(StartRetrievalBatch(r)) /\ WF_vars(StartCriteriaBatch(r))
        /\ WF_vars(ChunkDone(r)) /\ WF_vars(NextChunk(r))
        /\ \A k \in 1..MaxItems :
            /\ WF_vars(RetrieveOnly(r, k)) /\ WF_vars(FetchData(r, k))
            /\ WF_vars(CleanData(r, k)) /\ WF_vars(Acquire(r, k))
            /\ WF_vars(AttemptReturn(r, k)) /\ WF_vars(BackoffDone(r, k))

\* One request, sent to test_evaluate_batch_companies (which answers inline,
\* without the callback), with collaborators that may fail.
InitLive == Init /\ world = "faulty"

ArriveInline(r) == Arrive(r) /\ request'[r].endpoint # "evaluate-batch"

NextLive ==
    \E r \in Reqs :
        \/ ArriveInline(r)
        \/ StartRetrievalBatch(r)
        \/ StartCriteriaBatch(r)
        \/ ChunkDone(r)
        \/ NextChunk(r)
        \/ BatchTimeout(r)
        \/ ReturnInline(r)
        \/ \E k \in 1..MaxItems :
            \/ RetrieveOnly(r, k)
            \/ FetchData(r, k)
            \/ CleanData(r, k)
            \/ Acquire(r, k)
            \/ AttemptReturn(r, k)
            \/ BackoffDone(r, k)
            \/ EvalTimeout(r, k)

SpecLive == InitLive /\ [][NextLive]_vars /\ Fairness

\* ------------------------------------- the retrying client run by itself
handler_vars ==
    <<world, phase, request, overall_timeout, criteria_cache, criteria_info,
      interp_calls, chunk_start, all_results, batch_tasks, response, external>>

batch_vars == <<evaluation, handler_vars>>

\* The decorated function is called: backoff makes the first attempt.
CallLLM(c) ==
    /\ llm[c].pc = "idle"
    /\ llm' = [llm EXCEPT ![c] = [NoCall EXCEPT !.pc = "waiting", !.tries = 1]]
    /\ UNCHANGED <<batch_vars, semaphore>>

\* `async with self._semaphore`, then create() submits the request.
EnterLLM(c) ==
    /\ llm[c].pc = "waiting"
    /\ semaphore[1] > 0
    /\ semaphore' = [semaphore EXCEPT ![1] = @ - 1]
    /\ llm' = [llm EXCEPT ![c].pc = "submitted", ![c].sdk_retries = 0,
                           ![c].submissions = @ + 1]
    /\ UNCHANGED batch_vars

\* The SDK got an answer it retries by itself and has retries left: it
\* submits the request again, inside the same attempt and the same permit.
SdkResubmit(c) ==
    /\ llm[c].pc = "submitted"
    /\ llm[c].sdk_retries < sdk_max_retries
    /\ \E answer \in {a \in Answers : SdkRetries(a)} :
          llm' = [llm EXCEPT ![c].sdk_retries = @ + 1, ![c].submissions = @ + 1]
    /\ UNCHANGED <<batch_vars, semaphore>>

\* create() returns and the text is parsed: the call returns, the permit is
\* given back.
LLMReturns(c) ==
    /\ llm[c].pc = "submitted"
    /\ semaphore' = [semaphore EXCEPT ![1] = @ + 1]
    /\ llm' = [llm EXCEPT ![c].pc = "returned"]
    /\ UNCHANGED batch_vars

\* The attempt raises: the permit is given back, and the decorator either
\* waits to call again or lets the exception out.
LLMRaises(c) ==
    /\ llm[c].pc = "submitted"
    /\ \E answer \in Answers \ {"200"}, max_time_exceeded \in BOOLEAN :
        /\ SdkRetries(answer) => llm[c].sdk_retries = sdk_max_retries
        /\ llm' = [llm EXCEPT
              ![c].errors = Append(@, ErrorClass(answer)),
              ![c].pc = IF RetriesAfter(ErrorClass(answer), llm[c].tries,
                                        max_time_exceeded)
                        THEN "backoff" ELSE "raised"]
    /\ semaphore' = [semaphore EXCEPT ![1] = @ + 1]
    /\ UNCHANGED batch_vars

\* The backoff delay is over: the next attempt.
RetryLLM(c) ==
    /\ llm[c].pc = "backoff"
    /\ llm' = [llm EXCEPT ![c].pc = "waiting", ![c].tries = @ + 1]
    /\ UNCHANGED <<batch_vars, semaphore>>

\* One matcher has been built; nothing else runs.
InitRetry ==
    /\ world = "faulty"
    /\ phase = [r \in Reqs |-> "idle"]
    /\ request = [r \in Reqs |-> NoRequest]
    /\ overall_timeout = [r \in Reqs |-> 0]
    /\ semaphore = [r \in Reqs |-> IF r = 1 THEN MaxConcurrent ELSE 0]
    /\ criteria_cache = {}
    /\ criteria_info = [r \in Reqs |-> None]
    /\ interp_calls = [c \in CriteriaTexts |-> 0]
    /\ chunk_start = [r \in Reqs |-> 0]
    /\ all_results = [r \in Reqs |-> <<>>]
    /\ batch_tasks = [r \in Reqs |-> <<>>]
    /\ response = [r \in Reqs |-> NoResponse]
    /\ external = [r \in Reqs |-> {}]
    /\ llm = [c \in Callers |-> NoCall]
    /\ evaluation = NoEvaluation

NextRetry ==
    \E c \in Callers :
        \/ CallLLM(c)
        \/ EnterLLM(c)
        \/ SdkResubmit(c)
        \/ LLMReturns(c)
        \/ LLMRaises(c)
        \/ RetryLLM(c)

SpecRetry == InitRetry /\ [][NextRetry]_vars

\* ------------------------------- the evaluator and the normalizer by themselves
\* Texts of the completion service, character by character.
TextScore72 == \* "Score: 72. Confidence: 80%. Reason: strong industry fit."
    <<"S", "c", "o", "r", "e", ":", " ", "7", "2", ".", " ", "C", "o", "n",
      "f", "i", "d", "e", "n", "c", "e", ":", " ", "8", "0", "%", ".",
      " ", "R", "e", "a", "s", "o", "n", ":", " ", "s", "t", "r", "o",
      "n", "g", " ", "i", "n", "d", "u", "s", "t", "r", "y", " ", "f",
      "i", "t", ".">>
TextMatchScore85 == \* "Match score: 85, confidence: high. Reason: sells software."
    <<"M", "a", "t", "c", "h", " ", "s", "c", "o", "r", "e", ":", " ", "8",
      "5", ",", " ", "c", "o", "n", "f", "i", "d", "e", "n", "c", "e",
      ":", " ", "h", "i", "g", "h", ".", " ", "R", "e", "a", "s", "o",
      "n", ":", " ", "s", "e", "l", "l", "s", " ", "s", "o", "f", "t",
      "w", "a", "r", "e", ".">>
TextMatchScore40 == \* "match_score 40 confidence 0.35"
    <<"m", "a", "t", "c", "h", "_", "s", "c", "o", "r", "e", " ", "4", "0",
      " ", "c", "o", "n", "f", "i", "d", "e", "n", "c", "e", " ", "0",
      ".", "3", "5">>
TextNoNumbers == \* "Cannot tell! Data is missing."
    <<"C", "a", "n", "n", "o", "t", " ", "t", "e", "l", "l", "!", " ", "D",
      "a", "t", "a", " ", "i", "s", " ", "m", "i", "s", "s", "i", "n",
      "g", ".">>
TextAbout72 == \* "about 72 of 100"
    <<"a", "b", "o", "u", "t", " ", "7", "2", " ", "o", "f", " ", "1", "0",
      "0">>
TextFit == \* "good fit"
    <<"g", "o", "o", "d", " ", "f", "i", "t">>

\* match_score values of an answer.
ScoreInputs ==
    {Absent, JsonNull, JsonInt(-5), JsonInt(0), JsonInt(85), JsonInt(100),
     JsonInt(101), JsonInt(2000000000), JsonInt(-2000000000), JsonFloat(7250),
     JsonStr(<<"8", "5">>), JsonStr(<<"2", "5", "0">>), JsonStr(<<"-", "5">>),
     JsonStr(TextAbout72), JsonStr(<<"n", "o", "n", "e">>), JsonStr(<<>>),
     JsonList(<<>>)}

\* confidence values of an answer.
ConfidenceInputs ==
    {Absent, JsonNull, JsonFloat(85), JsonFloat(150), JsonFloat(-20), JsonInt(1),
     JsonStr(<<"H", "i", "g", "h">>), JsonStr(<<"8", "0", "%">>),
     JsonStr(<<"1", "5", "0", "%">>), JsonStr(<<"0", ".", "8", "5">>),
     JsonStr(<<"8", "5">>), JsonStr(<<"u", "n", "s", "u", "r", "e">>)}

\* required_fields values of an answer.
RequiredFieldsInputs ==
    {Absent, JsonNull, JsonInt(3),
     JsonList(<<<<"n", "a", "m", "e">>, <<"r", "i", "s", "k", "s">>>>),
     JsonList(<<<<"n", "a", "m", "e">>, <<"r", "e", "v", "e", "n", "u", "e">>>>),
     JsonList(<<<<>>, <<" ", "n", "a", "m", "e">>>>),
     JsonStr(<<"n", "a", "m", "e", ",", " ", "c", "e", "o">>),
     JsonStr(<<"1", "2">>)}

\* The dicts of the answers: a MatchResult answer, a CriteriaInfo answer.
MatchResultAnswer(score, conf) ==
    [f \in FieldNames |->
        CASE f = "match_score" -> score
          [] f = "confidence" -> conf
          [] f = "reason" -> JsonStr(TextFit)
          [] OTHER -> Absent]

CriteriaInfoAnswer(required_fields) ==
    [f \in FieldNames |->
        CASE f = "summary" -> JsonStr(TextFit)
          [] f = "required_fields" -> required_fields
          [] OTHER -> Absent]

NoFields == [f \in FieldNames |-> Absent]

Answers4Normalizer ==
    {MatchResultAnswer(sc, cf) : sc \in ScoreInputs, cf \in ConfidenceInputs}
        \cup {CriteriaInfoAnswer(rf) : rf \in RequiredFieldsInputs}

\* The texts the normalizer is run on.
Contents ==
    {Content(kind, TRUE, fields, TextNoNumbers) :
        kind \in {"json", "wrapped", "fenced"}, fields \in Answers4Normalizer}
    \cup {Content(kind, FALSE, NoFields, <<>>) : kind \in {"json", "fenced"}}
    \cup {Content("prose", FALSE, NoFields, chars) :
            chars \in {TextScore72, TextMatchScore85, TextMatchScore40,
                       TextNoNumbers, <<>>}}

\* _parse_llm_response(content, response_model) is called.
ParseLLMResponse ==
    /\ evaluation.pc = "idle"
    /\ \E content \in Contents, response_model \in ResponseModels :
        LET built == _parse_llm_response(content, response_model) IN
        evaluation' =
            [pc |-> IF built.raised = "" THEN "returned" ELSE "raised",
             op |-> "_parse_llm_response",
             args |-> [content |-> content, response_model |-> response_model],
             result |-> built, calls |-> 0, failure |-> ""]
    /\ UNCHANGED <<handler_vars, llm, semaphore>>

\* A batch handler computes overall_timeout for an accepted request.
ComputeOverallTimeout ==
    /\ evaluation.pc = "idle"
    /\ \E n \in 1..MaxCompanies, b \in BatchSizeArgs, c \in CriteriaArgs :
        evaluation' =
            [pc |-> "returned", op |-> "overall_timeout",
             args |-> [num_companies |-> n, batch_size |-> b, criteria |-> c],
             result |-> OverallTimeout(n), calls |-> 0, failure |-> ""]
    /\ UNCHANGED <<handler_vars, llm, semaphore>>

\* What clean_company_info hands to the evaluator: None or a dict with fields.
CompanyDataKinds == {"none", "record"}

\* The MatchResult async_check_match returns for missing company data.
NoValidData ==
    [match_score |-> 0, confidence |-> 0,
     reason |-> "No valid company data available for evaluation"]

\* The answers one awaited completion call can end in, after its retries: a
\* text, or the exception e that leaves the retrying call, with str(e).
EvalContents ==
    {Content("json", TRUE, MatchResultAnswer(JsonInt(85), JsonFloat(90)), <<>>),
     Content("json", TRUE, MatchResultAnswer(JsonInt(85), JsonStr(<<"1", "5", "0", "%">>)), <<>>),
     Content("json", TRUE, CriteriaInfoAnswer(JsonNull), <<>>),
     Content("json", FALSE, NoFields, <<>>),
     Content("prose", FALSE, NoFields, TextScore72)}

\* str(e) of what the constructor raises.
ConstructorMessage(cls) ==
    IF cls = "TypeError" THEN "argument after ** must be a mapping"
    ELSE "1 validation error for MatchResult"

\* async_check_match(criteria, company_data) is called.
CheckMatch ==
    /\ evaluation.pc = "idle"
    /\ \E company_data \in CompanyDataKinds :
        evaluation' =
            IF company_data = "none"
            THEN [pc |-> "returned", op |-> "async_check_match",
                  args |-> [company_data |-> company_data],
                  result |-> NoValidData, calls |-> 0, failure |-> "company data"]
            ELSE [pc |-> "interpreting", op |-> "async_check_match",
                  args |-> [company_data |-> company_data],
                  result |-> <<>>, calls |-> 0, failure |-> ""]
    /\ UNCHANGED <<handler_vars, llm, semaphore>>

\* _async_evaluate_match_with_criteria_info(criteria_info, company_data) is
\* called by an item of a batch, which has checked `not filtered_data`.
EvaluateWithCriteriaInfo ==
    /\ evaluation.pc = "idle"
    /\ evaluation' =
          [pc |-> "evaluating", op |-> "_async_evaluate_match_with_criteria_info",
           args |-> [company_data |-> "record"],
           result |-> <<>>, calls |-> 0, failure |-> ""]
    /\ UNCHANGED <<handler_vars, llm, semaphore>>

\* async_check_match reads the criteria through the cache: a hit, or
\* _extract_criteria_info calls the completion service and parses its answer.
\* Whatever is raised lands in `except Exception`.
InterpretCriteria ==
    /\ evaluation.pc = "interpreting"
    /\ \/ evaluation' = [evaluation EXCEPT !.pc = "evaluating"]
       \/ \E content \in EvalContents :
            LET built == _parse_llm_response(content, "CriteriaInfo") IN
            evaluation' =
                IF built.raised = ""
                THEN [evaluation EXCEPT !.pc = "evaluating", !.calls = @ + 1]
                ELSE [evaluation EXCEPT !.pc = "returned", !.calls = @ + 1,
                         !.failure = "interpretation",
                         !.result = EvaluationFailed(ConstructorMessage(built.raised))]
       \/ \E msg \in ExcMessages :
            evaluation' = [evaluation EXCEPT !.pc = "returned", !.calls = @ + 1,
                              !.failure = "interpretation",
                              !.result = EvaluationFailed(msg)]
    /\ UNCHANGED <<handler_vars, llm, semaphore>>

\* _async_evaluate_match awaits the retrying completion call and the parsing
\* of its answer; both callers catch what it raises.
EvaluateMatch ==
    /\ evaluation.pc = "evaluating"
    /\ \/ \E content \in EvalContents :
            LET built == _parse_llm_response(content, "MatchResult") IN
            evaluation' =
                IF built.raised = ""
                THEN [evaluation EXCEPT !.pc = "returned", !.calls = @ + 1,
                         !.result = built.value]
                ELSE [evaluation EXCEPT !.pc = "returned", !.calls = @ + 1,
                         !.failure = "normalization",
                         !.result = EvaluationFailed(ConstructorMessage(built.raised))]
       \/ \E msg \in ExcMessages :
            evaluation' = [evaluation EXCEPT !.pc = "returned", !.calls = @ + 1,
                              !.failure = "provider",
                              !.result = EvaluationFailed(msg)]
    /\ UNCHANGED <<handler_vars, llm, semaphore>>

\* The caller has its answer; the next call can come.
EvaluationOver ==
    /\ evaluation.pc \in {"returned", "raised"}
    /\ evaluation' = NoEvaluation
    /\ UNCHANGED <<handler_vars, llm, semaphore>>

\* ------------------------------------------------ the single-company handler
\* evaluate_single_company awaits get_company_data under its 300 s limit.
\* get_company_data answers a failed lookup with get_empty_response(), a
\* non-empty dict ("nameless"); `if not company_data` is the 404.
SingleRetrieve ==
    /\ evaluation.pc = "idle"
    /\ \E res \in CallResults :
        evaluation' =
            CASE res.kind = "timeout" ->
                    [pc |-> "returned", op |-> "evaluate_single_company",
                     args |-> [retrieved |-> res.kind, company_data |-> "none"],
                     result |-> HTTPException(504,
                        "Timeout retrieving company data after 5.0 minutes"),
                     calls |-> 0, failure |-> "timeout"]
              [] res.kind = "raise" ->
                    [pc |-> "returned", op |-> "evaluate_single_company",
                     args |-> [retrieved |-> res.kind, company_data |-> "none"],
                     result |-> HTTPException(500, "Internal error: " \o res.msg),
                     calls |-> 0, failure |-> "error"]
              [] res.kind = "none" ->
                    [pc |-> "returned", op |-> "evaluate_single_company",
                     args |-> [retrieved |-> res.kind, company_data |-> "none"],
                     result |-> HTTPException(404, "Company data not found"),
                     calls |-> 0, failure |-> "not found"]
              [] OTHER ->
                    [pc |-> "single_clean", op |-> "evaluate_single_company",
                     args |-> [retrieved |-> res.kind, company_data |-> "none"],
                     result |-> <<>>, calls |-> 0, failure |-> ""]
    /\ UNCHANGED <<handler_vars, llm, semaphore>>

\* evaluate_single_company awaits clean_company_info under its 60 s limit and
\* hands what it returns (None included) to async_check_match.
SingleClean ==
    /\ evaluation.pc = "single_clean"
    /\ \/ evaluation' =
            [evaluation EXCEPT !.pc = "returned", !.failure = "timeout",
                !.result = HTTPException(504, "Timeout cleaning company information")]
       \/ \E msg \in ExcMessages :
            evaluation' =
                [evaluation EXCEPT !.pc = "returned", !.failure = "error",
                    !.result = HTTPException(500, "Internal error: " \o msg)]
       \/ \E filtered_data \in CompanyDataKinds :
            evaluation' =
                [evaluation EXCEPT !.pc = "single_eval",
                    !.args.company_data = filtered_data]
    /\ UNCHANGED <<handler_vars, llm, semaphore>>

\* evaluate_single_company awaits async_check_match under its 60 s limit and
\* returns the result dict with is_match = match_score >= 80. The MatchResult
\* is one async_check_match returns for the data: NoValidData without data,
\* else a normalized answer or a zero-score failure result.
SingleEvaluate ==
    /\ evaluation.pc = "single_eval"
    /\ LET parsed == {_parse_llm_response(c, "MatchResult") : c \in EvalContents}
           match_results ==
               IF evaluation.args.company_data = "none" THEN {NoValidData}
               ELSE {b.value : b \in {x \in parsed : x.raised = ""}}
                    \cup {EvaluationFailed(ConstructorMessage(b.raised)) :
                             b \in {x \in parsed : x.raised # ""}}
                    \cup {EvaluationFailed(msg) : msg \in ExcMessages} IN
       \/ /\ evaluation.args.company_data # "none"
          /\ evaluation' =
                [evaluation EXCEPT !.pc = "returned", !.failure = "timeout",
                    !.result = HTTPException(504, "Timeout evaluating match criteria")]
       \/ \E match_result \in match_results :
            evaluation' =
                [evaluation EXCEPT !.pc = "returned",
                    !.calls = IF evaluation.args.company_data = "none" THEN 0 ELSE 1,
                    !.result =
                        [status_code |-> 200, detail |-> "",
                         is_match |-> match_result.match_score >= MatchThreshold,
                         match_score |-> match_result.match_score,
                         reason |-> match_result.reason,
                         confidence |-> match_result.confidence]]
    /\ UNCHANGED <<handler_vars, llm, semaphore>>

\* The callback POST of evaluate_batch_companies by itself: the POST ends in
\* an answer and callback_status is set from it.
PostCallback ==
    /\ evaluation.pc = "idle"
    /\ \E answer \in CallbackAnswers :
        evaluation' =
            [pc |-> "returned", op |-> "callback", args |-> [answer |-> answer],
             result |-> CallbackStatus(answer), calls |-> 0, failure |-> ""]
    /\ UNCHANGED <<handler_vars, llm, semaphore>>

\* Nothing else runs.
InitEval == InitRetry

NextEval ==
    \/ ParseLLMResponse
    \/ ComputeOverallTimeout
    \/ CheckMatch
    \/ EvaluateWithCriteriaInfo
    \/ InterpretCriteria
    \/ EvaluateMatch
    \/ SingleRetrieve
    \/ SingleClean
    \/ SingleEvaluate
    \/ PostCallback
    \/ EvaluationOver

SpecEval == InitEval /\ [][NextEval]_vars

\* ------------------------------------------------------------ the claims
\* The Running phase of request r has finished within the overall deadline.
AfterRunning(r) == phase[r] \in {"Aggregating", "Delivering", "Done"}

Accepted(r) == phase[r] \notin {"idle", "Rejected"}

\* C1: a batch with non-null criteria that finishes within its deadline has
\* exactly one outcome per input org number, the i-th outcome carrying the
\* i-th org number, for every batch_size the request accepts.
C1_OneOutcomePerOrgNumber ==
    \A r \in Reqs :
        (AfterRunning(r) /\ request[r].criteria # None) =>
            /\ Len(all_results[r]) = Len(request[r].org_numbers)
            /\ \A i \in 1..Len(all_results[r]) :
                  all_results[r][i].org_number = request[r].org_numbers[i]

\* An outcome built by the item's `except Exception` handler.
RaisedEntry(outcome) ==
    \E m \in ExcMessages : outcome.reason = "Error: " \o m

\* C2: when an item raised an unexpected exception (whatever its message),
\* the final list still has one entry per item, and the raising item's entry
\* has status failed and a non-empty error string.
C2_ItemExceptionIsolated ==
    \A r \in Reqs :
        AfterRunning(r) =>
            \A i \in 1..Len(all_results[r]) :
                RaisedEntry(all_results[r][i]) =>
                    /\ Len(all_results[r]) = Len(request[r].org_numbers)
                    /\ all_results[r][i].status = "failed"
                    /\ all_results[r][i].error # None
                    /\ all_results[r][i].error # Some("")

\* C3: a request with an empty list or more than 100 org numbers is rejected
\* with a validation error: no outcome, no task, no call to the data
\* provider, the completion service or the callback sink; every request that
\* is not rejected carries 1..100 org numbers.
C3_RejectedDoesNothing ==
    \A r \in Reqs :
        /\ phase[r] = "Rejected" =>
              /\ response[r].status_code = 400
              /\ response[r].detail \in {"No organization numbers provided",
                                         "Maximum 100 companies per batch"}
              /\ response[r].summary = None
              /\ ~response[r].inline
              /\ all_results[r] = <<>>
              /\ batch_tasks[r] = <<>>
              /\ external[r] = {}
        /\ Accepted(r) => Len(request[r].org_numbers) \in 1..MaxCompanies

\* An oversized and an empty list have both been rejected.
C3_Witness ==
    \E r1, r2 \in Reqs :
        /\ phase[r1] = "Rejected"
        /\ response[r1].detail = "Maximum 100 companies per batch"
        /\ phase[r2] = "Rejected"
        /\ response[r2].detail = "No organization numbers provided"

\* Every outcome request r has produced so far.
OutcomesOf(r) ==
    {all_results[r][i] : i \in 1..Len(all_results[r])} \cup
    {batch_tasks[r][k].result[1].value :
        k \in {j \in 1..Len(batch_tasks[r]) : batch_tasks[r][j].pc = "done"}}

\* C4: in a batch without criteria no item is ever evaluated and the
\* completion service is never called, and every successful outcome has
\* match_score None and is_match true.
C4_NoCriteriaNoEvaluation ==
    \A r \in Reqs :
        (Accepted(r) /\ ~HasCriteria(r)) =>
            /\ "completion" \notin external[r]
            /\ criteria_info[r] = None
            /\ \A k \in 1..Len(batch_tasks[r]) :
                  /\ batch_tasks[r][k].pc \in {"fetch", "done"}
                  /\ batch_tasks[r][k].tries = 0
            /\ \A outcome \in OutcomesOf(r) :
                  outcome.status = "success" =>
                      outcome.match_score = None /\ outcome.is_match = TRUE

\* A batch without criteria is done and holds a successful outcome.
C4_Witness ==
    \E r \in Reqs :
        /\ phase[r] = "Done"
        /\ ~HasCriteria(r)
        /\ \E i \in 1..Len(all_results[r]) : all_results[r][i].status = "success"

\* C5: within one batch the completion calls in flight never exceed
\* max_concurrent, also when a chunk wider than max_concurrent is launched.
C5_InFlightBounded ==
    \A r \in Reqs : Holding(batch_tasks[r]) <= MaxConcurrent

\* A chunk wider than max_concurrent: every permit is taken and an item waits.
C5_Witness ==
    \E r \in Reqs :
        /\ Len(batch_tasks[r]) > MaxConcurrent
        /\ Holding(batch_tasks[r]) = MaxConcurrent
        /\ \E k \in 1..Len(batch_tasks[r]) : batch_tasks[r][k].pc = "eval_wait"

RECURSIVE HoldingUpTo(_)
\* Completion calls in flight over the requests 1..r.
HoldingUpTo(r) ==
    IF r = 0 THEN 0 ELSE HoldingUpTo(r - 1) + Holding(batch_tasks[r])

\* C6: over all the batch requests of the process the completion calls in
\* flight never exceed max_concurrent.
C6_GlobalInFlightBounded == HoldingUpTo(MaxReqs) <= MaxConcurrent

\* C7: for one criteria text the completion service is asked to interpret it
\* at most once in the life of the process.
C7_InterpretedOnce ==
    \A text \in CriteriaTexts : interp_calls[text] <= 1

\* C8: two batches with the same criteria text use one interpretation: they
\* hold the same CriteriaInfo and the cache holds one entry for the text.
C8_SharedInterpretation ==
    \A r1, r2 \in Reqs :
        (/\ HasCriteria(r1) /\ HasCriteria(r2)
         /\ request[r1].criteria = request[r2].criteria
         /\ criteria_info[r1] # None /\ criteria_info[r2] # None) =>
            /\ criteria_info[r1] = criteria_info[r2]
            /\ Cardinality({e \in criteria_cache :
                              e.criteria = request[r1].criteria[1]}) = 1

\* The error classes the retry policy is meant for.
IsTransient(cls) ==
    cls \in {"RateLimitError", "APITimeoutError", "InternalServerError"}

\* C9: one call submits the request to the completion service at most 3
\* times, and it fails with a transient provider error only after the third
\* failed attempt.
C9_AtMostThreeSubmissions ==
    \A c \in Callers :
        /\ llm[c].submissions <= max_tries
        /\ (llm[c].pc = "raised" /\ IsTransient(llm[c].errors[Len(llm[c].errors)])) =>
              Len(llm[c].errors) = max_tries

\* C10: an attempt answered with a non-transient error is the call's last
\* attempt: the error goes to the caller, no further attempt is made.
C10_NonTransientNotRetried ==
    \A c \in Callers :
        \A i \in 1..Len(llm[c].errors) :
            ~IsTransient(llm[c].errors[i]) =>
                i = Len(llm[c].errors) /\ llm[c].pc = "raised"

\* The evaluator ops of evaluation.
EvaluatorOps == {"async_check_match", "_async_evaluate_match_with_criteria_info"}

\* C11: the evaluator never raises to its caller, and on every failure path
\* (interpretation failure, provider error after the retries, normalization
\* error) it returns a MatchResult with match_score 0, confidence 0.0 and a
\* non-empty reason.
C11_EvaluateNeverRaises ==
    evaluation.op \in EvaluatorOps =>
        /\ evaluation.pc # "raised"
        /\ (evaluation.pc = "returned" /\ evaluation.failure # "") =>
              /\ evaluation.result.match_score = 0
              /\ evaluation.result.confidence = 0
              /\ evaluation.result.reason # ""

\* The evaluator has returned after the normalizer raised on the answer.
C11_Witness ==
    /\ evaluation.op \in EvaluatorOps
    /\ evaluation.pc = "returned"
    /\ evaluation.failure = "normalization"
    /\ evaluation.calls > 0

\* The reasons of the outcomes of items without company data.
NoDataReasons ==
    {"Failed to retrieve company data", "Failed to retrieve cleaned company data"}

\* C12: for items whose company data is missing the result has score zero and
\* no completion-service call is made at all, neither for interpretation nor
\* for evaluation: a criteria batch whose items all lack company data has not
\* called the completion service.
C12_NoDataNoCompletionCall ==
    \A r \in Reqs :
        (/\ AfterRunning(r) /\ HasCriteria(r)
         /\ all_results[r] # <<>>
         /\ \A i \in 1..Len(all_results[r]) :
               all_results[r][i].reason \in NoDataReasons) =>
            /\ "completion" \notin external[r]
            /\ \A i \in 1..Len(all_results[r]) :
                  all_results[r][i].match_score = Some(0)

\* C13: the normalizer never fails outward: for every text and either target
\* schema _parse_llm_response returns a record and does not raise.
C13_NormalizerNeverRaises ==
    evaluation.op = "_parse_llm_response" =>
        /\ evaluation.pc = "returned"
        /\ evaluation.result.raised = ""

\* C14: every CriteriaInfo the normalizer produces has required_fields within
\* the allowed vocabulary.
C14_RequiredFieldsInVocabulary ==
    (/\ evaluation.op = "_parse_llm_response"
     /\ evaluation.args.response_model = "CriteriaInfo"
     /\ evaluation.result.raised = "") =>
        \A i \in 1..Len(evaluation.result.value.required_fields) :
            evaluation.result.value.required_fields[i] \in AllowedFields

\* An answer parsed as a JSON object whose confidence cannot fail validation.
ScoreCase ==
    /\ evaluation.op = "_parse_llm_response"
    /\ evaluation.args.response_model = "MatchResult"
    /\ evaluation.args.content.kind = "json"
    /\ evaluation.args.content.is_object
    /\ evaluation.args.content.fields["confidence"] \in {Absent, JsonNull}
    /\ evaluation.args.content.fields["match_score"].type \in {"int", "str", "null"}

C16_RegexFallbackExample ==
    (/\ evaluation.op = "_parse_llm_response"
     /\ evaluation.args.response_model = "MatchResult"
     /\ evaluation.args.content.kind = "prose"
     /\ evaluation.args.content.chars = TextScore72) =>
        /\ evaluation.result.raised = ""
        /\ evaluation.result.value.match_score = 72
        /\ evaluation.result.value.confidence = 80

\* C17: the overall deadline of an accepted batch of n org numbers is
\* min(max(300 n, 600), 7200) seconds: 600 up to n = 2, 300 n up to n = 24,
\* 7200 from there on, whatever batch_size and criteria are.
C17_OverallDeadline ==
    evaluation.op = "overall_timeout" =>
        LET n == evaluation.args.num_companies IN
        evaluation.result =
            (IF n <= 2 THEN 600 ELSE IF n <= 24 THEN 300 * n ELSE 7200)

\* 12 org numbers with batch_size 2: 3600 seconds.
C17_Witness ==
    /\ evaluation.op = "overall_timeout"
    /\ evaluation.args.num_companies = 12
    /\ evaluation.args.batch_size = Some(2)
    /\ evaluation.result = 3600

C19_DeliveryFailureIsData ==
    \A r \in Reqs :
        "callback" \in external[r] =>
            /\ phase[r] \in {"Delivering", "Done"}
            /\ phase[r] = "Done" =>
                  /\ response[r].status_code = 200
                  /\ response[r].status \in
                        {Some("success"), Some("failed"), Some("timeout"), Some("error")}
                  /\ response[r].summary = Some(Summary(r))

\* A request is Done although its callback was not delivered.
C19_Witness ==
    \E r \in Reqs :
        /\ phase[r] = "Done"
        /\ response[r].status \in {Some("failed"), Some("timeout"), Some("error")}
        /\ response[r].summary = Some(Summary(r))

\* C20: an accepted batch request ends in a request-level error only when its
\* overall deadline elapsed: every other failure is reported as data.
C20_OnlyDeadlineFailsRequest ==
    \A r \in Reqs :
        (Accepted(r) /\ response[r].status_code \notin {0, 200}) =>
            phase[r] = "TimedOut"

\* C21: evaluate_single_company fails with the not-found condition whenever
\* the company's data could not be retrieved; it never returns a normal
\* evaluation result for such a company (a timeout or an exception of a later
\* step aside).
C21_NotFoundWhenNoData ==
    (/\ evaluation.op = "evaluate_single_company"
     /\ evaluation.pc = "returned"
     /\ evaluation.failure \notin {"timeout", "error"}
     /\ evaluation.args.retrieved \in {"none", "nameless"}) =>
        evaluation.result.status_code = 404

\* C22: when the completion service keeps answering one item with a transient
\* error until the retries are used up, that item's outcome is a failed one
\* (status "failed", a non-null error), counted in the summary's failed count.
C22_ExhaustionIsFailedOutcome ==
    \A r \in Reqs :
        (AfterRunning(r) /\ HasCriteria(r)) =>
            \A i \in 1..Len(all_results[r]) :
                all_results[r][i].reason = "Evaluation failed: RateLimitError" =>
                    /\ all_results[r][i].status = "failed"
                    /\ all_results[r][i].error # None
                    /\ Summary(r).failed >= 1

\* C23: the recorded delivery status is a failure value (failed, timeout or
\* error) exactly when the POST answered with a non-2xx status, timed out or
\* raised a transport error; every 2xx answer is recorded as "success".
C23_DeliveryStatusFollows2xx ==
    (evaluation.op = "callback" /\ evaluation.pc = "returned") =>
        (evaluation.result \in {"failed", "timeout", "error"}
            <=> evaluation.args.answer \notin {"200", "204"})

\* The reasons of the outcomes built for a per-item timeout, and their errors.
TimeoutReasons ==
    {"Timeout retrieving company data after 120.0s",
     "Timeout retrieving cleaned company data after 120.0s",
     "Timeout evaluating match criteria", "Timeout after 120.0 seconds"}

TimeoutErrors == {Some("Timeout after 120.0 seconds"), Some("Match evaluation timeout")}

\* Item k of the running chunk of request r is finished by a per-item timeout
\* in this step.
TimedOutNow(r, k) ==
    /\ phase[r] = "Running"
    /\ k \in 1..Len(batch_tasks[r])
    /\ batch_tasks[r][k].pc # "done"
    /\ k \in 1..Len(batch_tasks'[r])
    /\ batch_tasks'[r][k].pc = "done"
    /\ batch_tasks'[r][k].result[1].value.reason \in TimeoutReasons

\* C24: a per-item timeout (retrieval or evaluation) gives exactly that item a
\* failed outcome whose non-null error names the timeout; the step leaves the
\* other items of the chunk, the results so far and the batch's phase alone,
\* and a batch that finishes has an outcome for every item, those of later
\* chunks included.
C24_ItemTimeoutIsolated ==
    /\ [](\A r \in Reqs : AfterRunning(r) =>
            \A i \in 1..Len(all_results[r]) :
                all_results[r][i].reason \in TimeoutReasons =>
                    /\ all_results[r][i].status = "failed"
                    /\ all_results[r][i].error \in TimeoutErrors
                    /\ Len(all_results[r]) = Len(request[r].org_numbers))
    /\ [][\A r \in Reqs : \A k \in 1..MaxItems :
            TimedOutNow(r, k) =>
                /\ phase'[r] = "Running"
                /\ all_results' = all_results
                /\ chunk_start' = chunk_start
                /\ batch_tasks'[r][k].result[1].value.status = "failed"
                /\ \A j \in (1..Len(batch_tasks[r])) \ {k} :
                      batch_tasks'[r][j] = batch_tasks[r][j]]_vars

\* A batch of three items in two chunks has finished: the first item timed
\* out, the second, of the same chunk, and the third, of the next chunk, were
\* evaluated.
C24_Witness ==
    \E r \in Reqs :
        /\ AfterRunning(r) /\ HasCriteria(r)
        /\ BatchSizeOf(r) = 2
        /\ Len(all_results[r]) = 3
        /\ all_results[r][1].reason = "Timeout evaluating match criteria"
        /\ all_results[r][2].status = "success"
        /\ all_results[r][3].status = "success"

\* C25: chunks run one after the other. While chunk k runs (its items are the
\* only ones that have started) the result list holds exactly the outcomes of
\* the items of chunks 0..k-1, in input order; once it is appended the list
\* holds the first min((k+1) * batch_size, N) outcomes, and only then does an
\* item of chunk k+1 start.
C25_ChunksInSequence ==
    \A r \in Reqs :
        LET N == Len(request[r].org_numbers) IN
        /\ phase[r] \in {"Running", "Pacing"} =>
              /\ chunk_start[r] % BatchSizeOf(r) = 0
              /\ \A i \in 1..Len(all_results[r]) :
                    all_results[r][i].org_number = request[r].org_numbers[i]
        /\ phase[r] = "Running" =>
              /\ Len(all_results[r]) = chunk_start[r]
              /\ batch_tasks[r] # <<>>
              /\ chunk_start[r] + Len(batch_tasks[r]) =
                    Min(chunk_start[r] + BatchSizeOf(r), N)
        /\ phase[r] = "Pacing" =>
              /\ Len(all_results[r]) = Min(chunk_start[r] + BatchSizeOf(r), N)
              /\ batch_tasks[r] = <<>>

\* The second chunk of a batch is running with an item already under
\* evaluation, after a first chunk of two items.
C25_Witness ==
    \E r \in Reqs :
        /\ phase[r] = "Running"
        /\ chunk_start[r] = 2
        /\ Len(all_results[r]) = 2
        /\ batch_tasks[r][1].pc = "calling"

\* C26 as stated: under fair scheduling, with every call of an item ending,
\* every batch whose chunks have started reaches aggregation.
C26_ReachesAggregation ==
    \A r \in Reqs :
        (phase[r] \in {"Running", "Pacing"}) ~> (phase[r] = "Aggregating")

\* C26, amended: under fair scheduling, with every call of an item ending,
\* every item finishes and every batch whose chunks have started reaches
\* aggregation, unless the batch's overall deadline fires
\* first and ends it in TimedOut; no item waits for a permit forever, also
\* when the chunk is wider than max_concurrent.
C26_ReachesAggregationOrDeadline ==
    \A r \in Reqs :
        (phase[r] \in {"Running", "Pacing"}) ~> (phase[r] \in {"Aggregating", "TimedOut"})

\* A chunk of three items has been gathered with two permits: all three were
\* evaluated, so one of them had to wait for a permit.
C26_Witness ==
    \E r \in Reqs :
        /\ phase[r] = "Aggregating" /\ HasCriteria(r)
        /\ BatchSizeOf(r) > MaxConcurrent
        /\ Len(all_results[r]) > MaxConcurrent
        /\ \A i \in 1..Len(all_results[r]) : all_results[r][i].reason \in {"fit", "near fit"}

\* C27: every outcome of a final outcome list has status "success" or
\* "failed" and exactly one of the two shapes: a failed outcome carries a
\* non-null error, a success outcome carries none and, with criteria, has a
\* match_score and a confidence that are not null (its reason is a string in
\* every outcome).
C27_OutcomeShape ==
    \A r \in Reqs :
        AfterRunning(r) =>
            \A i \in 1..Len(all_results[r]) :
                LET o == all_results[r][i] IN
                /\ o.status \in {"success", "failed"}
                /\ o.status = "failed" => o.error # None
                /\ o.status = "success" =>
                      /\ o.error = None
                      /\ HasCriteria(r) =>
                            (o.match_score # None /\ o.confidence # None)

\* A criteria batch has finished with an evaluated item and an item whose
\* retrieval raised.
C27_Witness ==
    \E r \in Reqs :
        /\ AfterRunning(r) /\ HasCriteria(r)
        /\ \E i, j \in 1..Len(all_results[r]) :
              /\ all_results[r][i].status = "success"
              /\ all_results[r][i].match_score = Some(80)
              /\ all_results[r][j].status = "failed"
              /\ all_results[r][j].reason = "Error: connection reset"

\* C28: with criteria, an outcome has is_match = true exactly when its status
\* is "success" and its match_score is at least 80, whatever its confidence;
\* every failed outcome has is_match = false, match_score 0 and confidence 0.
C28_IsMatchFromScore ==
    \A r \in Reqs :
        (AfterRunning(r) /\ HasCriteria(r)) =>
            \A i \in 1..Len(all_results[r]) :
                LET o == all_results[r][i] IN
                /\ o.is_match \in BOOLEAN
                /\ o.match_score # None
                /\ o.is_match <=> (o.status = "success" /\ o.match_score[1] >= 80)
                /\ o.status = "failed" =>
                      (~o.is_match /\ o.match_score = Some(0) /\ o.confidence = Some(0))

\* A finished criteria batch holds a match with confidence 0.5, below the
\* configured min_confidence, and a non-match with score 79 and confidence 1.0.
C28_Witness ==
    \E r \in Reqs :
        /\ AfterRunning(r) /\ HasCriteria(r)
        /\ \E i, j \in 1..Len(all_results[r]) :
              /\ all_results[r][i].is_match
              /\ all_results[r][i].match_score = Some(80)
              /\ all_results[r][i].confidence = Some(50)
              /\ ~all_results[r][j].is_match
              /\ all_results[r][j].match_score = Some(79)
              /\ all_results[r][j].confidence = Some(100)

\* C29: for every batch that was aggregated the summary agrees with the final
\* outcome list: successful + failed is the number of outcomes, which is the
\* reported total (the number of input org numbers); with criteria the match
\* count is the number of outcomes with is_match = true and at most the
\* successful count.
C29_SummaryConsistent ==
    \A r \in Reqs :
        (phase[r] = "Done" /\ response[r].summary # None) =>
            LET s == response[r].summary[1] IN
            /\ s.successful + s.failed = Len(all_results[r])
            /\ Len(all_results[r]) = s.total
            /\ s.total = Len(request[r].org_numbers)
            /\ HasCriteria(r) =>
                  /\ s.matches = Some(match_count(all_results[r]))
                  /\ s.matches[1] <= s.successful

\* C30: permits are conserved. For every matcher the free permits plus the
\* completion requests being executed (the attempts inside `async with`) are
\* max_concurrent in every state: an attempt that returns or raises, an item
\* cancelled by its evaluation timeout and a batch cancelled by its deadline
\* give the permit back, and an item that waits for a permit or waits out a
\* backoff delay holds none.
C30_PermitsConserved ==
    \A r \in Reqs :
        phase[r] # "idle" =>
            /\ semaphore[r] \in 0..MaxConcurrent
            /\ semaphore[r] + Holding(batch_tasks[r]) = MaxConcurrent
            /\ phase[r] # "Running" => semaphore[r] = MaxConcurrent

\* Three items share two permits: the first was cancelled by its evaluation
\* timeout, the second is executing its request, the third waits out a
\* backoff delay; one permit is free.
C30_Witness ==
    \E r \in Reqs :
        /\ phase[r] = "Running"
        /\ Len(batch_tasks[r]) = 3
        /\ batch_tasks[r][1].pc = "done"
        /\ batch_tasks[r][1].result[1].value.reason = "Timeout evaluating match criteria"
        /\ batch_tasks[r][2].pc = "calling"
        /\ batch_tasks[r][3].pc = "backoff"
        /\ semaphore[r] = MaxConcurrent - 1

====
